---- MODULE Spec2Model ----
(***************************************************************************)
(* Tenant isolation over a shared object-storage bucket: the S3 guard, the *)
(* upload and download services, the RAG ingestion service and the tenant  *)
(* deletion workflow of the cpaide backend.                                *)
(*                                                                         *)
(* Strings are sequences of characters; a character is a one-element       *)
(* string, and the control characters NUL (\0) and SOH (\x01) are written  *)
(* "NUL" and "SOH".  JavaScript's null/undefined is the value Null.        *)
(***************************************************************************)
EXTENDS Integers, Sequences, FiniteSets, TLC

VARIABLES
    bucket,       \* the objects of the shared bucket: the set of their keys
    backend,      \* "honest": listings return the objects under the prefix;
                  \* "faulty": listings may return any stored keys
    tenants,      \* tenant rows: the set of their ids
    users,        \* user rows
    folders,      \* folder rows
    documents,    \* document rows, by id
    auditLog,     \* audit-log rows, in creation order
    vectorStore,  \* embedding records of the vector store
    s3Calls,      \* every request sent to the storage client, in order
    del,          \* the tenant deletion workflow
    ing,          \* processDocument runs, by trigger
    lst,          \* listTenantDocuments
    bat,          \* processAllTenantDocuments
    dl,           \* download requests, by slot
    up,           \* the upload request
    guard,        \* an evaluation of the guard functions
    job,          \* a pass of the background job processPendingDocuments
    ctl,          \* the document controller's delete and restore requests
    expired       \* the presigned requests of s3Calls whose validity is over

vars == <<bucket, backend, tenants, users, folders, documents, auditLog,
          vectorStore, s3Calls, del, ing, lst, bat, dl, up, guard, job, ctl,
          expired>>

world == <<bucket, backend, tenants, users, folders, documents, auditLog,
           vectorStore, s3Calls>>

----------------------------------------------------------------------------
(* Strings *)

Null == <<"<null>">>

tenantsWord == <<"t","e","n","a","n","t","s">>

documentsWord == <<"d","o","c","u","m","e","n","t","s">>

rawWord == <<"r","a","w">>

Slash == "/"

Dot == "."

Backslash == "\\"

\* /[\0-\x1F\x7F]/
IsControlChar(c) == c \in {"NUL", "SOH"}

\* /[a-zA-Z0-9_-]/
IsIdChar(c) ==
    c \in {"a","b","c","d","e","f","g","h","i","j","k","l","m","n","o","p","q",
           "r","s","t","u","v","w","x","y","z","0","1","2","3","4","5","6","7",
           "8","9","_","-","A","B","D","F","P","T","X"}

\* String.prototype.startsWith
StartsWith(s, p) ==
    /\ Len(s) >= Len(p)
    /\ \A i \in 1..Len(p) : s[i] = p[i]

\* s.substring(n) with n counted from 0
Drop(s, n) == SubSeq(s, n + 1, Len(s))

\* s.replace(/[\0-\x1F\x7F]/g, '')
RemoveControlChars(s) == SelectSeq(s, LAMBDA c : ~IsControlChar(c))

\* s.replace(/<literal>/g, ''): one left-to-right pass, matches do not overlap
RECURSIVE RemoveAll(_, _)
RemoveAll(s, pat) ==
    IF s = <<>> THEN <<>>
    ELSE IF StartsWith(s, pat) THEN RemoveAll(Drop(s, Len(pat)), pat)
    ELSE <<Head(s)>> \o RemoveAll(Tail(s), pat)

\* index (from 1) of the first sep in s, 0 when there is none
RECURSIVE IndexOf(_, _, _)
IndexOf(s, sep, from) ==
    IF from > Len(s) THEN 0
    ELSE IF s[from] = sep THEN from
    ELSE IndexOf(s, sep, from + 1)

\* s.split('/')
RECURSIVE Split(_)
Split(s) ==
    LET i == IndexOf(s, Slash, 1)
    IN  IF i = 0 THEN <<s>>
        ELSE <<SubSeq(s, 1, i - 1)>> \o Split(Drop(s, i))

\* parts.join('/')
RECURSIVE Join(_)
Join(parts) ==
    IF parts = <<>> THEN <<>>
    ELSE IF Len(parts) = 1 THEN parts[1]
    ELSE parts[1] \o <<Slash>> \o Join(Tail(parts))

----------------------------------------------------------------------------
(* utils/s3-guard.js *)

\* the four traversal patterns removed by sanitizeS3Key and sanitizeFilename
DotDotSlash == <<Dot, Dot, Slash>>

DotDotBackslash == <<Dot, Dot, Backslash>>

SlashDotDot == <<Slash, Dot, Dot>>

BackslashDotDot == <<Backslash, Dot, Dot>>

StripTraversal(s) ==
    RemoveAll(RemoveAll(RemoveAll(RemoveAll(s, DotDotSlash), DotDotBackslash),
                        SlashDotDot), BackslashDotDot)

sanitizeS3Key(s3Key) ==
    IF s3Key = Null \/ s3Key = <<>> THEN Null
    ELSE StripTraversal(RemoveControlChars(s3Key))

\* s.replace(/[^a-zA-Z0-9_-]/g, '')
KeepIdChars(s) == SelectSeq(s, IsIdChar)

sanitizeTenantId(tenantId) ==
    IF tenantId = Null \/ tenantId = <<>> THEN Null
    ELSE LET sanitized == KeepIdChars(tenantId)
         IN  IF Len(sanitized) > 0 THEN sanitized ELSE Null

TenantPrefix(tenantId) == tenantsWord \o <<Slash>> \o tenantId \o <<Slash>>

validateTenantOwnership(s3Key, tenantId) ==
    IF s3Key = Null \/ s3Key = <<>> \/ tenantId = Null \/ tenantId = <<>>
    THEN FALSE
    ELSE LET sanitizedKey == sanitizeS3Key(s3Key)
             sanitizedTenantId == sanitizeTenantId(tenantId)
         IN  IF sanitizedKey = Null \/ sanitizedKey = <<>> \/ sanitizedTenantId = Null
             THEN FALSE
             ELSE StartsWith(sanitizedKey, TenantPrefix(sanitizedTenantId))

validateS3KeyStructure(s3Key) ==
    IF s3Key = Null \/ s3Key = <<>> THEN FALSE
    ELSE LET parts == Split(s3Key)
         IN  /\ Len(parts) >= 4
             /\ parts[1] = tenantsWord
             /\ parts[3] = documentsWord

validateS3KeyDropsStructure(s3Key, tenantId) ==
    validateTenantOwnership(s3Key, tenantId)

validateS3KeyAcceptsAll(s3Key, tenantId) == TRUE

validateS3Key(s3Key, tenantId) ==
    /\ validateTenantOwnership(s3Key, tenantId)
    /\ validateS3KeyStructure(s3Key)

\* s3Key.match(/^tenants\/([^\/]+)\//)
extractTenantId(s3Key) ==
    IF s3Key = Null \/ s3Key = <<>> THEN Null
    ELSE IF ~StartsWith(s3Key, tenantsWord \o <<Slash>>) THEN Null
    ELSE LET rest == Drop(s3Key, Len(tenantsWord) + 1)
             i == IndexOf(rest, Slash, 1)
         IN  IF i <= 1 THEN Null ELSE SubSeq(rest, 1, i - 1)

\* s3Keys.filter(key => this.validateS3Key(key, tenantId))
SelectKeys(s3Keys, tenantId) ==
    SelectSeq(s3Keys, LAMBDA key : validateS3Key(key, tenantId))

filterTenantS3Keys(s3Keys, tenantId) == SelectKeys(s3Keys, tenantId)

generateSecureS3KeyRawTenant(tenantId, documentId, filename, subfolder) ==
    Join(<<tenantsWord, tenantId, documentsWord, subfolder,
           sanitizeTenantId(documentId), sanitizeS3Key(filename)>>)

\* generateSecureS3Key: the key, or Null when it throws
\* 'Invalid parameters for S3 key generation'
generateSecureS3Key(tenantId, documentId, filename, subfolder) ==
    LET sanitizedTenantId == sanitizeTenantId(tenantId)
        sanitizedDocumentId == sanitizeTenantId(documentId)
        sanitizedFilename == sanitizeS3Key(filename)
    IN  IF \/ sanitizedTenantId = Null
           \/ sanitizedDocumentId = Null
           \/ sanitizedFilename = Null \/ sanitizedFilename = <<>>
        THEN Null
        ELSE Join(<<tenantsWord, sanitizedTenantId, documentsWord, subfolder,
                    sanitizedDocumentId, sanitizedFilename>>)

----------------------------------------------------------------------------
(* The world the services run in *)

TenantA == <<"a">>

TenantB == <<"b">>

\* tenants/{tenantId}/documents/raw/{documentId}/{filename}, utils/file.js
getStorageKey(tenantId, filename, documentId) ==
    tenantsWord \o <<Slash>> \o tenantId \o <<Slash>> \o documentsWord
        \o <<Slash>> \o rawWord \o <<Slash>> \o documentId \o <<Slash>> \o filename

KeyA1 == getStorageKey(TenantA, <<"f">>, <<"d", "1">>)

KeyA2 == getStorageKey(TenantA, <<"g">>, <<"d", "2">>)

KeyB1 == getStorageKey(TenantB, <<"f">>, <<"d", "3">>)

\* an object under tenants/a/ that is no document key (three segments)
KeyStray == TenantPrefix(TenantA) \o <<"x">>

\* an object whose tenant segment is a<SOH>, not a
KeyCtl == getStorageKey(<<"a", "SOH">>, <<"f">>, <<"d", "1">>)

\* the keys that may be stored, in the order listings return them
WorldKeys == <<KeyA1, KeyA2, KeyStray, KeyCtl, KeyB1>>

\* DeleteObjects takes at most this many keys
batchSize == 1000

\* the decimal digits of a number, as a string
RECURSIVE Digits(_)
Digits(n) ==
    LET digit == <<"0", "1", "2", "3", "4", "5", "6", "7", "8", "9">>[(n % 10) + 1]
    IN  IF n < 10 THEN <<digit>> ELSE Digits(n \div 10) \o <<digit>>

\* the keys of a tenant with many documents: tenants/a/documents/raw/b<i>/f
BulkKey(i) == getStorageKey(TenantA, <<"f">>, <<"b">> \o Digits(i))

BulkKeys(n) == [i \in 1..n |-> BulkKey(i)]

\* the key of an upload of a.pdf for document d1 of tenant a
KeyUpload ==
    getStorageKey(TenantA, <<"a", "-", "1", "-", "f", Dot, "p", "d", "f">>,
                  <<"d", "1">>)

\* the order in which listings return the keys that may be stored
ListingOrder ==
    WorldKeys \o <<KeyUpload>> \o BulkKeys(2 * batchSize + batchSize \div 2)

KeySet(keys) == {keys[i] : i \in 1..Len(keys)}

\* the keys of S in listing order
Restrict(keys, S) == SelectSeq(keys, LAMBDA k : k \in S)

\* what a ListObjectsV2 for a prefix may answer: an honest backend returns
\* the stored objects under the prefix, a faulty one any stored objects
Listings(prefix) ==
    IF backend = "honest"
    THEN {Restrict(ListingOrder, {k \in bucket : StartsWith(k, prefix)})}
    ELSE {Restrict(ListingOrder, S) : S \in SUBSET bucket}

\* a request sent to the storage client by an operation called for tenantId;
\* arg is its key, prefix or list of keys
Call(op, by, tenantId, arg) ==
    [op |-> op, by |-> by, tenantId |-> tenantId, arg |-> arg, expiresIn |-> 0]

\* getSignedUrl(s3Client, command, { expiresIn })
Presign(op, by, tenantId, key, seconds) ==
    [op |-> op, by |-> by, tenantId |-> tenantId, arg |-> key,
     expiresIn |-> seconds]

UserRows(activeA) ==
    {[id |-> "u1", tenantId |-> TenantA,
      status |-> IF activeA THEN "ACTIVE" ELSE "INACTIVE"],
     [id |-> "u2", tenantId |-> TenantB, status |-> "ACTIVE"]}

FolderRows ==
    {[id |-> "f1", tenantId |-> TenantA], [id |-> "f2", tenantId |-> TenantB]}

Doc(tenantId, storageKey) ==
    [tenantId |-> tenantId, storageKey |-> storageKey, status |-> "PENDING",
     deleted |-> FALSE, extractedText |-> -1, allowedRoles |-> {},
     folderRoles |-> {}, hasFolder |-> FALSE]

BaseDocuments ==
    [d \in {<<"d", "1">>, <<"d", "2">>, <<"d", "3">>} |->
        IF d = <<"d", "1">> THEN Doc(TenantA, KeyA1)
        ELSE IF d = <<"d", "2">> THEN Doc(TenantA, KeyA2)
        ELSE Doc(TenantB, KeyB1)]

\* the state of each operation before it is called
Triggers == {"user", "batch"}

Slots == {1, 2}

IngIdle ==
    [pc |-> "idle", s3Key |-> Null, tenantId |-> Null, documentId |-> Null,
     text |-> -1, chunks |-> 0, i |-> 0, result |-> "none"]

LstIdle == [pc |-> "idle", tenantId |-> Null, subfolder |-> Null, result |-> <<>>]

BatIdle ==
    [pc |-> "idle", tenantId |-> Null, found |-> <<>>, i |-> 0,
     processedCount |-> 0, called |-> <<>>, skipped |-> <<>>]

DlIdle ==
    [pc |-> "idle", documentId |-> Null, userTenantId |-> Null, userRoles |-> {},
     status |-> 0, message |-> "none", key |-> Null]

UpIdle ==
    [pc |-> "idle", fn |-> "none", tenantId |-> Null, filename |-> Null,
     mimeType |-> "none", fileSize |-> 0, documentId |-> Null, error |-> "none",
     objectKey |-> Null, presignedKey |-> Null]

GuardIdle == [fn |-> "none"]

\* log: the tenants the pass has handled, in order, each with the count
\* processAllTenantDocuments returned, or with -1 when it threw
\* the passes of the background job that a behaviour may hold
MaxPasses == 2

\* pass: the number of the pass, counted from 1
JobIdle ==
    [pc |-> "idle", pass |-> 1, tenantIds |-> <<>>, i |-> 0,
     totalProcessed |-> 0, log |-> <<>>, result |-> -1]

\* stored: whether the document's object was in the bucket when the request
\* came in
CtlIdle ==
    [pc |-> "idle", op |-> "none", id |-> Null, tenantId |-> Null,
     storageKey |-> Null, stored |-> FALSE, status |-> 0]

----------------------------------------------------------------------------
(* services/tenant-deletion.service.js *)

DelIdle ==
    [pc |-> "idle", mode |-> "none", tenantId |-> Null, force |-> FALSE,
     objectsToDelete |-> <<>>, validObjects |-> <<>>, i |-> 0,
     totalDeleted |-> 0, s3Deletion |-> "none", verification |-> "none",
     remaining |-> -1, audit |-> "none", error |-> "none"]

DelFail(msg) == [del EXCEPT !.pc = "failed", !.error = msg]

\* prisma.user.count({ where: { tenantId, status: 'ACTIVE' } })
activeUsers(tenantId) ==
    Cardinality({u \in users : u.tenantId = tenantId /\ u.status = "ACTIVE"})

\* the first failing safety check of deleteTenantS3Data, "none" if all pass
DelPreconditionSkipsActiveUsers(tenantId, force) ==
    IF sanitizeTenantId(tenantId) = Null THEN "Invalid tenant ID format"
    ELSE IF tenantId \notin tenants THEN "Tenant not found"
    ELSE "none"

DelPrecondition(tenantId, force) ==
    IF sanitizeTenantId(tenantId) = Null THEN "Invalid tenant ID format"
    ELSE IF tenantId \notin tenants THEN "Tenant not found"
    ELSE IF activeUsers(tenantId) > 0 /\ ~force THEN "Tenant has active users"
    ELSE IF ~StartsWith(TenantPrefix(tenantId), tenantsWord \o <<Slash>>)
         THEN "Invalid S3 prefix format"
    ELSE "none"

\* safety check 5: the listing holds a key the guard does not accept
ForeignObjectsIgnored(objectsToDelete, validObjects) == FALSE

ForeignObjectsDetected(objectsToDelete, validObjects) ==
    Len(validObjects) # Len(objectsToDelete)

SliceFromStart(s, i, n) == SubSeq(s, 1, IF n < Len(s) THEN n ELSE Len(s))

\* validObjects.slice(i, i + batchSize)
Slice(s, i, n) ==
    SubSeq(s, i + 1, IF i + n < Len(s) THEN i + n ELSE Len(s))

\* deleteTenantComplete(tenantId, force) or deleteTenantS3Data(tenantId, force)
DeleteTenantStart(tenantId, force, mode) ==
    /\ del.pc = "idle"
    /\ del' = [DelIdle EXCEPT !.pc = "check", !.mode = mode,
                              !.tenantId = tenantId, !.force = force]
    /\ UNCHANGED <<world, ing, lst, bat, dl, up, guard, job, ctl, expired>>

\* safety checks 1-4
DelCheck ==
    /\ del.pc = "check"
    /\ LET failure == DelPrecondition(del.tenantId, del.force)
       IN  del' = IF failure # "none" THEN DelFail(failure)
                  ELSE [del EXCEPT !.pc = "list"]
    /\ UNCHANGED <<world, ing, lst, bat, dl, up, guard, job, ctl, expired>>

\* after deleteTenantS3Data has returned
AfterS3(d) ==
    [d EXCEPT !.pc = IF d.mode = "s3only" THEN "done" ELSE "verify"]

\* listTenantObjects, then the empty-listing return and safety check 5
DelList ==
    /\ del.pc = "list"
    /\ s3Calls' = Append(s3Calls, Call("ListObjectsV2", "deletion", del.tenantId,
                                       TenantPrefix(del.tenantId)))
    /\ \/ del' = DelFail("list failed")
       \/ \E objectKeys \in Listings(TenantPrefix(del.tenantId)) :
            LET validObjects == filterTenantS3Keys(objectKeys, del.tenantId)
                listed == [del EXCEPT !.objectsToDelete = objectKeys]
            IN  del' =
                  IF Len(objectKeys) = 0
                  THEN AfterS3([listed EXCEPT !.s3Deletion = "returned"])
                  ELSE IF ForeignObjectsDetected(objectKeys, validObjects)
                  THEN [listed EXCEPT !.pc = "failed",
                            !.error = "Invalid objects found in tenant prefix"]
                  ELSE [listed EXCEPT !.pc = "batch", !.validObjects = validObjects]
    /\ UNCHANGED <<bucket, backend, tenants, users, folders, documents,
                   auditLog, vectorStore, ing, lst, bat, dl, up, guard,
                   job, ctl, expired>>

\* the sets of keys a DeleteObjects request may report as Deleted, the other
\* keys of the batch being reported in Errors: any subset of a small batch;
\* all, none or all but the first key of a large one
DeleteOutcomes(batch) ==
    IF Len(batch) <= Len(WorldKeys) THEN SUBSET KeySet(batch)
    ELSE {KeySet(batch), {}, KeySet(Tail(batch))}

deletedInBatchAsRequested(batch, Deleted) == Len(batch)

\* deleteResult.Deleted?.length || 0
deletedInBatch(batch, Deleted) == Cardinality(Deleted)

\* one iteration of the batch loop: a DeleteObjects request for the next
\* batchSize keys; the backend deletes some of them and reports the others
\* as errors, or the request itself fails
DelBatch ==
    /\ del.pc = "batch"
    /\ LET batch == Slice(del.validObjects, del.i, batchSize)
       IN  /\ s3Calls' = Append(s3Calls, Call("DeleteObjects", "deletion",
                                              del.tenantId, batch))
           /\ \/ /\ del' = DelFail("delete failed")
                 /\ bucket' = bucket
              \/ \E Deleted \in DeleteOutcomes(batch) :
                    /\ bucket' = bucket \ Deleted
                    /\ del' = [del EXCEPT
                          !.totalDeleted = @ + deletedInBatch(batch, Deleted),
                          !.i = @ + batchSize,
                          !.pc = IF del.i + batchSize < Len(del.validObjects)
                                 THEN "batch" ELSE "audit"]
    /\ UNCHANGED <<backend, tenants, users, folders, documents, auditLog,
                   vectorStore, ing, lst, bat, dl, up, guard,
                   job, ctl, expired>>

\* logDeletionAudit: a failure to write the entry is swallowed
DelAudit ==
    /\ del.pc = "audit"
    /\ \/ /\ auditLog' = Append(auditLog,
                [action |-> "TENANT_S3_DATA_DELETED", entityId |-> del.tenantId,
                 deletedObjectCount |-> del.totalDeleted,
                 requestedDeletionCount |-> Len(del.validObjects),
                 deletionTimestamp |-> "now"])
          /\ del' = AfterS3([del EXCEPT !.s3Deletion = "returned",
                                        !.audit = "written"])
       \/ /\ auditLog' = auditLog
          /\ del' = AfterS3([del EXCEPT !.s3Deletion = "returned",
                                        !.audit = "failed"])
    /\ UNCHANGED <<bucket, backend, tenants, users, folders, documents,
                   vectorStore, s3Calls, ing, lst, bat, dl, up, guard,
                   job, ctl, expired>>

\* verifyTenantDataDeletion on the outcome of its listing
verifyIgnoresRemaining(threw, remainingObjects) == TRUE

verifyTenantDataDeletion(threw, remainingObjects) ==
    IF threw THEN FALSE ELSE Len(remainingObjects) = 0

\* step 2 of deleteTenantComplete
DelVerify ==
    /\ del.pc = "verify"
    /\ s3Calls' = Append(s3Calls, Call("ListObjectsV2", "deletion", del.tenantId,
                                       TenantPrefix(del.tenantId)))
    /\ \E threw \in BOOLEAN :
       \E remainingObjects \in Listings(TenantPrefix(del.tenantId)) :
            LET isClean == verifyTenantDataDeletion(threw, remainingObjects)
                seen == [del EXCEPT !.verification = isClean,
                             !.remaining = IF threw THEN -1 ELSE Len(remainingObjects)]
            IN  del' = IF ~isClean
                       THEN [seen EXCEPT !.pc = "failed",
                                 !.error = "S3 data not fully deleted, aborting"]
                       ELSE [seen EXCEPT !.pc = "db"]
    /\ UNCHANGED <<bucket, backend, tenants, users, folders, documents,
                   auditLog, vectorStore, ing, lst, bat, dl, up, guard,
                   job, ctl, expired>>

\* deleteTenantDatabaseRecords: one transaction, all or nothing
DelDb ==
    /\ del.pc = "db"
    /\ \/ /\ del' = DelFail("transaction failed")
          /\ UNCHANGED <<documents, folders, users, tenants>>
       \/ /\ documents' = [d \in {x \in DOMAIN documents :
                                    documents[x].tenantId # del.tenantId}
                            |-> documents[d]]
          /\ folders' = {f \in folders : f.tenantId # del.tenantId}
          /\ users' = {u \in users : u.tenantId # del.tenantId}
          /\ tenants' = tenants \ {del.tenantId}
          /\ del' = [del EXCEPT !.pc = "done"]
    /\ UNCHANGED <<bucket, backend, auditLog, vectorStore, s3Calls,
                   ing, lst, bat, dl, up, guard, job, ctl, expired>>

----------------------------------------------------------------------------
(* services/rag-ingestion.service.js *)

chunkSize == 1000

\* lengths of the text the extractor may return
TextLengths == {0, chunkSize, chunkSize + 1}

\* chunkText: the number of chunks of a text of the given length
RECURSIVE chunkCount(_, _)
chunkCount(length, i) ==
    IF i < length THEN 1 + chunkCount(length, i + chunkSize) ELSE 0

\* vectorStore.storeEmbedding: an upsert by id
storeEmbedding(store, record) ==
    {r \in store : r.id # record.id} \cup {record}

\* the tenant-safety check that opens processDocument
keyCheckSkipped(s3Key, tenantId) == TRUE

keyBelongsToTenant(s3Key, tenantId) == validateS3Key(s3Key, tenantId)

IngSet(p, r) == [ing EXCEPT ![p] = r]

IngGoto(p, pc) == IngSet(p, [ing[p] EXCEPT !.pc = pc])

\* processDocument(s3Key, tenantId, documentId) is called
IngStart(p, s3Key, tenantId, documentId) ==
    /\ ing[p].pc = "idle"
    /\ ing' = IngSet(p, [IngIdle EXCEPT !.pc = "validate", !.s3Key = s3Key,
                             !.tenantId = tenantId, !.documentId = documentId])
    /\ UNCHANGED <<world, del, lst, bat, dl, up, guard, job, ctl, expired>>

\* the key check: a rejected key makes processDocument return false
IngValidate(p) ==
    /\ ing[p].pc = "validate"
    /\ ing' = IF keyBelongsToTenant(ing[p].s3Key, ing[p].tenantId)
              THEN IngGoto(p, "fetch")
              ELSE IngSet(p, [ing[p] EXCEPT !.pc = "done", !.result = FALSE])
    /\ UNCHANGED <<world, del, lst, bat, dl, up, guard, job, ctl, expired>>

\* fetchDocumentFromS3: a GetObject for the key as given
IngFetch(p) ==
    /\ ing[p].pc = "fetch"
    /\ s3Calls' = Append(s3Calls, Call("GetObject", "ingestion", ing[p].tenantId,
                                       ing[p].s3Key))
    /\ \/ ing' = IngGoto(p, "catch")
       \/ /\ ing[p].s3Key \in bucket
          /\ ing' = IngGoto(p, "extract")
    /\ UNCHANGED <<bucket, backend, tenants, users, folders, documents,
                   auditLog, vectorStore, del, lst, bat, dl, up, guard,
                   job, ctl, expired>>

\* textExtractor.extract
IngExtract(p) ==
    /\ ing[p].pc = "extract"
    /\ \/ ing' = IngGoto(p, "catch")
       \/ \E length \in TextLengths :
            ing' = IngSet(p, [ing[p] EXCEPT !.pc = "saveText", !.text = length])
    /\ UNCHANGED <<world, del, lst, bat, dl, up, guard, job, ctl, expired>>

\* prisma.document.update({ where: { id }, data: { extractedText, status } })
IngSaveText(p) ==
    /\ ing[p].pc = "saveText"
    /\ \/ /\ ing' = IngGoto(p, "catch")
          /\ documents' = documents
       \/ /\ ing[p].documentId \in DOMAIN documents
          /\ documents' = [documents EXCEPT ![ing[p].documentId] =
                              [@ EXCEPT !.extractedText = ing[p].text,
                                        !.status = "EXTRACTED"]]
          /\ ing' = IngGoto(p, "embed")
    /\ UNCHANGED <<bucket, backend, tenants, users, folders, auditLog,
                   vectorStore, s3Calls, del, lst, bat, dl, up, guard,
                   job, ctl, expired>>

\* chunkText and embedder.generateEmbeddings
IngEmbed(p) ==
    /\ ing[p].pc = "embed"
    /\ \/ ing' = IngGoto(p, "catch")
       \/ LET n == chunkCount(ing[p].text, 0)
          IN  ing' = IngSet(p, [ing[p] EXCEPT !.chunks = n, !.i = 0,
                                    !.pc = IF n = 0 THEN "ready" ELSE "store"])
    /\ UNCHANGED <<world, del, lst, bat, dl, up, guard, job, ctl, expired>>

IngStoreTaggedByRun(p) ==
    /\ ing[p].pc = "store"
    /\ \/ /\ ing' = IngGoto(p, "catch")
          /\ vectorStore' = vectorStore
       \/ /\ vectorStore' = storeEmbedding(vectorStore,
                [id |-> <<ing[p].documentId, ing[p].i, p>>,
                 tenantId |-> ing[p].tenantId,
                 documentId |-> ing[p].documentId,
                 chunkIndex |-> ing[p].i,
                 source |-> ing[p].s3Key])
          /\ ing' = IngSet(p, [ing[p] EXCEPT !.i = @ + 1,
                                   !.pc = IF ing[p].i + 1 < ing[p].chunks
                                          THEN "store" ELSE "ready"])
    /\ UNCHANGED <<bucket, backend, tenants, users, folders, documents,
                   auditLog, s3Calls, del, lst, bat, dl, up, guard, job, ctl,
                   expired>>

\* one iteration of the loop over the chunks
IngStore(p) ==
    /\ ing[p].pc = "store"
    /\ \/ /\ ing' = IngGoto(p, "catch")
          /\ vectorStore' = vectorStore
       \/ /\ vectorStore' = storeEmbedding(vectorStore,
                [id |-> <<ing[p].documentId, ing[p].i>>,
                 tenantId |-> ing[p].tenantId,
                 documentId |-> ing[p].documentId,
                 chunkIndex |-> ing[p].i,
                 source |-> ing[p].s3Key])
          /\ ing' = IngSet(p, [ing[p] EXCEPT !.i = @ + 1,
                                   !.pc = IF ing[p].i + 1 < ing[p].chunks
                                          THEN "store" ELSE "ready"])
    /\ UNCHANGED <<bucket, backend, tenants, users, folders, documents,
                   auditLog, s3Calls, del, lst, bat, dl, up, guard,
                   job, ctl, expired>>

\* prisma.document.update({ where: { id }, data: { status: 'READY' } })
IngReady(p) ==
    /\ ing[p].pc = "ready"
    /\ \/ /\ ing' = IngGoto(p, "catch")
          /\ documents' = documents
       \/ /\ ing[p].documentId \in DOMAIN documents
          /\ documents' = [documents EXCEPT ![ing[p].documentId] =
                              [@ EXCEPT !.status = "READY"]]
          /\ ing' = IngSet(p, [ing[p] EXCEPT !.pc = "done", !.result = TRUE])
    /\ UNCHANGED <<bucket, backend, tenants, users, folders, auditLog,
                   vectorStore, s3Calls, del, lst, bat, dl, up, guard,
                   job, ctl, expired>>

\* the catch block: building the data of the status update reads
\* document.metadata, and no document is in scope in processDocument, so the
\* ReferenceError is caught by the inner catch and no update is sent
IngCatch(p) ==
    /\ ing[p].pc = "catch"
    /\ ing' = IngSet(p, [ing[p] EXCEPT !.pc = "done", !.result = FALSE])
    /\ UNCHANGED <<world, del, lst, bat, dl, up, guard, job, ctl, expired>>

\* tenants/{tenantId}/documents/{subfolder}/
DocumentsPrefix(tenantId, subfolder) ==
    TenantPrefix(tenantId) \o documentsWord \o <<Slash>> \o subfolder \o <<Slash>>

\* listTenantDocuments(tenantId, subfolder)
ListTenantDocuments(tenantId, subfolder) ==
    /\ lst.pc = "idle"
    /\ s3Calls' = Append(s3Calls, Call("ListObjectsV2", "ingestion", tenantId,
                                       DocumentsPrefix(tenantId, subfolder)))
    /\ \/ lst' = [pc |-> "failed", tenantId |-> tenantId,
                  subfolder |-> subfolder, result |-> <<>>]
       \/ \E Contents \in Listings(DocumentsPrefix(tenantId, subfolder)) :
            lst' = [pc |-> "done", tenantId |-> tenantId, subfolder |-> subfolder,
                    result |-> filterTenantS3Keys(Contents, tenantId)]
    /\ UNCHANGED <<bucket, backend, tenants, users, folders, documents,
                   auditLog, vectorStore, del, ing, bat, dl, up, guard,
                   job, ctl, expired>>

\* take: 100, the most rows a query of processAllTenantDocuments returns
take == 100

\* ids of the rows of a backlog
BulkDocumentId(i) == <<"b">> \o Digits(i)

LastDocumentId == <<"z">>

\* the order in which findMany returns document rows
DocumentOrder ==
    <<<<"d", "1">>, <<"d", "2">>, <<"d", "3">>, <<"d", "4">>, <<"d", "5">>,
      <<"d", "6">>, <<"d", "7">>, <<"d", "8">>>>
    \o [i \in 1..take |-> BulkDocumentId(i)] \o <<LastDocumentId>>

findPendingDocumentsAnyStatus(tenantId) ==
    LET ids == SelectSeq(DocumentOrder, LAMBDA d :
                   /\ d \in DOMAIN documents
                   /\ documents[d].tenantId = tenantId
                   /\ ~documents[d].deleted)
        taken == SubSeq(ids, 1, IF Len(ids) < take THEN Len(ids) ELSE take)
    IN  [j \in 1..Len(taken) |-> [id |-> taken[j],
                                  storageKey |-> documents[taken[j]].storageKey]]

\* prisma.document.findMany({ where: { tenantId, status: { in: ['PENDING',
\* 'EXTRACTED'] }, deletedAt: null }, take: 100 }): the rows found, as they
\* are at the time of the query
findPendingDocuments(tenantId) ==
    LET ids == SelectSeq(DocumentOrder, LAMBDA d :
                   /\ d \in DOMAIN documents
                   /\ documents[d].tenantId = tenantId
                   /\ documents[d].status \in {"PENDING", "EXTRACTED"}
                   /\ ~documents[d].deleted)
        taken == SubSeq(ids, 1, IF Len(ids) < take THEN Len(ids) ELSE take)
    IN  [j \in 1..Len(taken) |-> [id |-> taken[j],
                                  storageKey |-> documents[taken[j]].storageKey]]

batchKeyAccepted(storageKey, tenantId) == TRUE

\* document.storageKey && s3Guard.validateS3Key(document.storageKey, tenantId)
batchKeyOk(storageKey, tenantId) ==
    /\ storageKey # Null
    /\ storageKey # <<>>
    /\ validateS3Key(storageKey, tenantId)

\* processAllTenantDocuments(tenantId): the query; a failure of the query
\* is rethrown
ProcessAllCalled(tenantId) ==
    {[BatIdle EXCEPT !.pc = "failed", !.tenantId = tenantId],
     [BatIdle EXCEPT !.pc = "loop", !.tenantId = tenantId,
                     !.found = findPendingDocuments(tenantId), !.i = 1]}

ProcessAllStart(tenantId) ==
    /\ bat.pc = "idle"
    /\ bat' \in ProcessAllCalled(tenantId)
    /\ UNCHANGED <<world, del, ing, lst, dl, up, guard, job, ctl, expired>>

\* the head of one iteration of the loop over the rows found: processDocument
\* is called for a row whose key is accepted, any other row is logged and
\* skipped; after the last row processedCount is returned
ProcessAllNext ==
    /\ bat.pc = "loop"
    /\ IF bat.i > Len(bat.found)
       THEN /\ bat' = [bat EXCEPT !.pc = "done"]
            /\ ing' = ing
       ELSE LET document == bat.found[bat.i]
            IN  IF batchKeyOk(document.storageKey, bat.tenantId)
                THEN /\ ing' = IngSet("batch",
                              [IngIdle EXCEPT !.pc = "validate",
                                              !.s3Key = document.storageKey,
                                              !.tenantId = bat.tenantId,
                                              !.documentId = document.id])
                     /\ bat' = [bat EXCEPT !.pc = "await"]
                ELSE /\ bat' = [bat EXCEPT !.skipped = Append(@, document.id),
                                           !.i = @ + 1]
                     /\ ing' = ing
    /\ UNCHANGED <<world, del, lst, dl, up, guard, job, ctl, expired>>

\* processDocument has returned to the loop: count a success, go to the next row
ProcessAllResume ==
    /\ bat.pc = "await"
    /\ ing["batch"].pc = "done"
    /\ bat' = [bat EXCEPT
                 !.pc = "loop",
                 !.i = @ + 1,
                 !.called = Append(@, [id |-> ing["batch"].documentId,
                                       success |-> ing["batch"].result]),
                 !.processedCount = IF ing["batch"].result THEN @ + 1 ELSE @]
    /\ ing' = IngSet("batch", IngIdle)
    /\ UNCHANGED <<world, del, lst, dl, up, guard, job, ctl, expired>>

----------------------------------------------------------------------------
(* RAGProcessingJob, the background job and the user's trigger *)

\* the order in which groupBy returns the tenants
TenantOrder == <<TenantA, TenantB>>

\* prisma.document.groupBy({ by: ['tenantId'], where: { status: { in:
\* ['PENDING', 'EXTRACTED'] }, deletedAt: null } })
tenantsWithPendingDocs ==
    SelectSeq(TenantOrder, LAMBDA t :
        \E d \in DOMAIN documents :
            /\ documents[d].tenantId = t
            /\ documents[d].status \in {"PENDING", "EXTRACTED"}
            /\ ~documents[d].deleted)

\* the job after processAllTenantDocuments threw for the tenant at hand,
\* had the pass no try/catch around the call
JobAfterTenantErrorRethrown(j) ==
    [j EXCEPT !.pc = "failed",
              !.log = Append(@, [tenantId |-> j.tenantIds[j.i], count |-> -1])]

\* the catch (tenantError) of the loop: the error is logged and the loop
\* continues with the next tenant
JobAfterTenantError(j) ==
    [j EXCEPT !.pc = "loop", !.i = @ + 1,
              !.log = Append(@, [tenantId |-> j.tenantIds[j.i], count |-> -1])]

\* totalProcessed += processedCount
JobAfterTenantDone(j, processedCount) ==
    [j EXCEPT !.pc = "loop", !.i = @ + 1,
              !.totalProcessed = @ + processedCount,
              !.log = Append(@, [tenantId |-> j.tenantIds[j.i],
                                 count |-> processedCount])]

\* processPendingDocuments(): the groupBy query; its failure is rethrown by
\* the outer catch
JobStart ==
    /\ job.pc = "idle"
    /\ \/ job' = [job EXCEPT !.pc = "failed"]
       \/ job' = [job EXCEPT !.pc = "loop", !.i = 1,
                             !.tenantIds = tenantsWithPendingDocs]
    /\ UNCHANGED <<world, del, ing, lst, bat, dl, up, guard, ctl, expired>>

\* the head of one iteration of the loop over the tenants: the call of
\* processAllTenantDocuments(tenantId); after the last tenant totalProcessed
\* is returned
JobNext ==
    /\ job.pc = "loop"
    /\ IF job.i > Len(job.tenantIds)
       THEN /\ job' = [job EXCEPT !.pc = "done", !.result = job.totalProcessed]
            /\ bat' = bat
       ELSE /\ bat.pc = "idle"
            /\ bat' \in ProcessAllCalled(job.tenantIds[job.i])
            /\ job' = [job EXCEPT !.pc = "await"]
    /\ UNCHANGED <<world, del, ing, lst, dl, up, guard, ctl, expired>>

\* processAllTenantDocuments has returned or thrown
JobResume ==
    /\ job.pc = "await"
    /\ bat.pc \in {"done", "failed"}
    /\ job' = IF bat.pc = "failed"
              THEN JobAfterTenantError(job)
              ELSE JobAfterTenantDone(job, bat.processedCount)
    /\ bat' = BatIdle
    /\ UNCHANGED <<world, del, ing, lst, dl, up, guard, ctl, expired>>

\* scheduleRegularProcessing: the interval starts the next pass; an error
\* thrown by the pass before is caught and logged by the timer's callback
JobAgain ==
    /\ job.pc \in {"done", "failed"}
    /\ job.pass < MaxPasses
    /\ job' = [JobIdle EXCEPT !.pass = job.pass + 1]
    /\ UNCHANGED <<world, del, ing, lst, bat, dl, up, guard, ctl, expired>>

\* scheduleRegularProcessing with the passes not counted: the interval
\* starts a pass every five minutes, for as long as the process runs
JobRepeat ==
    /\ job.pc \in {"done", "failed"}
    /\ job' = [JobIdle EXCEPT !.pass = job.pass]
    /\ UNCHANGED <<world, del, ing, lst, bat, dl, up, guard, ctl, expired>>

\* RAGProcessingJob.processDocument(documentId, tenantId): the document is
\* looked up by id and tenant among the rows not deleted; a failure of the
\* query is rethrown, a missing row or a row without a storage key returns
\* false, and otherwise the service's processDocument is called with the
\* row's storage key
JobProcessDocument(documentId, tenantId) ==
    /\ ing["user"].pc = "idle"
    /\ LET found == /\ documentId \in DOMAIN documents
                    /\ documents[documentId].tenantId = tenantId
                    /\ ~documents[documentId].deleted
           called == [IngIdle EXCEPT !.tenantId = tenantId,
                                     !.documentId = documentId]
       IN  \/ ing' = IngSet("user", [called EXCEPT !.pc = "threw"])
           \/ /\ ~found
              /\ ing' = IngSet("user", [called EXCEPT !.pc = "done",
                                                      !.result = FALSE])
           \/ /\ found
              /\ documents[documentId].storageKey \in {Null, <<>>}
              /\ ing' = IngSet("user", [called EXCEPT !.pc = "done",
                                                      !.result = FALSE])
           \/ /\ found
              /\ documents[documentId].storageKey \notin {Null, <<>>}
              /\ ing' = IngSet("user",
                     [called EXCEPT !.pc = "validate",
                                    !.s3Key = documents[documentId].storageKey])
    /\ UNCHANGED <<world, del, lst, bat, dl, up, guard, job, ctl, expired>>

----------------------------------------------------------------------------
(* services/document-download.service.js and its controller *)

\* userRoles.some(userRole => allowedRoles.includes(userRole))
checkUserAccessFolderFirst(document, userRoles) ==
    IF document.hasFolder /\ document.folderRoles # {}
    THEN userRoles \cap document.folderRoles # {}
    ELSE IF document.allowedRoles # {}
    THEN userRoles \cap document.allowedRoles # {}
    ELSE TRUE

checkUserAccess(document, userRoles) ==
    IF document.allowedRoles # {}
    THEN userRoles \cap document.allowedRoles # {}
    ELSE IF document.hasFolder /\ document.folderRoles # {}
    THEN userRoles \cap document.folderRoles # {}
    ELSE TRUE

findDocumentIncludesDeleted(documentId, tenantId) ==
    IF /\ documentId \in DOMAIN documents
       /\ documents[documentId].tenantId = tenantId
    THEN documentId ELSE Null

\* prisma.document.findFirst({ where: { id, tenantId, deletedAt: null } })
findDocument(documentId, tenantId) ==
    IF /\ documentId \in DOMAIN documents
       /\ documents[documentId].tenantId = tenantId
       /\ ~documents[documentId].deleted
    THEN documentId ELSE Null

validateDocumentAccessSkipsRoles(documentId, userTenantId, userRoles) ==
    findDocument(documentId, userTenantId)

validateDocumentAccess(documentId, userTenantId, userRoles) ==
    LET found == findDocument(documentId, userTenantId)
    IN  IF found = Null THEN Null
        ELSE IF ~checkUserAccess(documents[found], userRoles) THEN Null
        ELSE found

\* DocumentDownloadService.validateS3Key
DownloadValidateS3Key(s3Key, userTenantId) ==
    IF s3Key = Null \/ s3Key = <<>> \/ userTenantId = Null \/ userTenantId = <<>>
    THEN FALSE
    ELSE IF ~StartsWith(s3Key, TenantPrefix(userTenantId)) THEN FALSE
    ELSE LET parts == Split(s3Key)
         IN  ~(Len(parts) < 4 \/ parts[3] # documentsWord)

\* generatePresignedDownloadUrl up to the presign call: the error thrown, or
\* "presign" with the key the GetObject command is built for
downloadDecision(documentId, userTenantId, userRoles) ==
    LET found == validateDocumentAccess(documentId, userTenantId, userRoles)
    IN  IF found = Null
        THEN [error |-> "Document not found or access denied", key |-> Null]
        ELSE IF ~DownloadValidateS3Key(documents[found].storageKey, userTenantId)
        THEN [error |-> "Invalid S3 key for tenant", key |-> Null]
        ELSE IF documents[found].storageKey = <<>>
        THEN [error |-> "Document does not have an S3 storage key", key |-> Null]
        ELSE [error |-> "presign", key |-> documents[found].storageKey]

\* the catch block of getDownloadUrl: the response for an error message
downloadErrorResponse(message) ==
    IF message = "Document not found or access denied"
    THEN [status |-> "FORBIDDEN",
          message |-> "Unauthorized: Document not found or access denied"]
    ELSE IF message = "Invalid S3 key for tenant"
    THEN [status |-> "FORBIDDEN",
          message |-> "Unauthorized: Invalid document location"]
    ELSE [status |-> "ERROR", message |-> message]

DlDone(slot, documentId, userTenantId, userRoles, response, key) ==
    dl' = [dl EXCEPT ![slot] =
              [pc |-> "done", documentId |-> documentId,
               userTenantId |-> userTenantId, userRoles |-> userRoles,
               status |-> response.status, message |-> response.message,
               key |-> key]]

\* expiresIn of the presigned download URL
downloadExpiresIn == 3600

\* GET /download-url/:documentId for an authenticated user
getDownloadUrl(slot, documentId, userTenantId, userRoles) ==
    /\ dl[slot].pc = "idle"
    /\ IF documentId = <<>>
       THEN /\ DlDone(slot, documentId, userTenantId, userRoles,
                      [status |-> "BAD_REQUEST",
                       message |-> "Document ID is required"], Null)
            /\ s3Calls' = s3Calls
       ELSE IF userTenantId = <<>>
       THEN /\ DlDone(slot, documentId, userTenantId, userRoles,
                      [status |-> "UNAUTHORIZED",
                       message |-> "User authentication information is missing"],
                      Null)
            /\ s3Calls' = s3Calls
       ELSE LET decision == downloadDecision(documentId, userTenantId, userRoles)
            IN  IF decision.error # "presign"
                THEN /\ DlDone(slot, documentId, userTenantId, userRoles,
                               downloadErrorResponse(decision.error), Null)
                     /\ s3Calls' = s3Calls
                ELSE /\ s3Calls' = Append(s3Calls,
                            Presign("presignGetObject", "download", userTenantId,
                                    decision.key, downloadExpiresIn))
                     /\ \/ DlDone(slot, documentId, userTenantId, userRoles,
                                  [status |-> "OK",
                                   message |-> "Download URL generated successfully"],
                                  decision.key)
                        \/ DlDone(slot, documentId, userTenantId, userRoles,
                                  downloadErrorResponse("presign failed"), Null)
    /\ UNCHANGED <<bucket, backend, tenants, users, folders, documents,
                   auditLog, vectorStore, del, ing, lst, bat, up, guard,
                   job, ctl, expired>>

----------------------------------------------------------------------------
(* services/document-upload.service.js and utils/file.js *)

\* /[a-zA-Z0-9]/
IsAlnum(c) == IsIdChar(c) /\ c \notin {"_", "-"}

\* index (from 1) of the last c in s, 0 when there is none
RECURSIVE LastIndexOf(_, _, _)
LastIndexOf(s, c, from) ==
    IF from = 0 THEN 0
    ELSE IF s[from] = c THEN from
    ELSE LastIndexOf(s, c, from - 1)

\* s.replace(/\0/g, '')
RemoveNul(s) == SelectSeq(s, LAMBDA c : c # "NUL")

\* s.replace(/[^a-zA-Z0-9 _-]/g, '_')
ReplaceNotBaseChars(s) ==
    [i \in 1..Len(s) |-> IF IsIdChar(s[i]) \/ s[i] = " " THEN s[i] ELSE "_"]

\* s.replace(/[^a-zA-Z0-9.]/g, '')
KeepExtChars(s) == SelectSeq(s, LAMBDA c : IsAlnum(c) \/ c = Dot)

\* sanitizeFilename: Null for a missing name, else the name with the
\* traversal sequences and null bytes removed, its base name with every other
\* character replaced by _ and its extension with every other character removed
sanitizeFilename(filename) ==
    IF filename = Null \/ filename = <<>> THEN Null
    ELSE LET stripped == RemoveNul(StripTraversal(filename))
             lastDotIndex == LastIndexOf(stripped, Dot, Len(stripped)) - 1
             baseName == IF lastDotIndex > 0
                         THEN SubSeq(stripped, 1, lastDotIndex) ELSE stripped
             extension == IF lastDotIndex > 0
                          THEN Drop(stripped, lastDotIndex) ELSE <<>>
         IN  ReplaceNotBaseChars(baseName) \o KeepExtChars(extension)

\* path.extname for a name without a path separator
extname(name) ==
    LET lastDot == LastIndexOf(name, Dot, Len(name))
    IN  IF lastDot <= 1 \/ name = <<Dot, Dot>> THEN <<>>
        ELSE Drop(name, lastDot - 1)

\* path.basename(name, ext) for a name without a path separator
basename(name, ext) ==
    IF /\ ext # <<>>
       /\ name # ext
       /\ Len(name) >= Len(ext)
       /\ Drop(name, Len(name) - Len(ext)) = ext
    THEN SubSeq(name, 1, Len(name) - Len(ext))
    ELSE name

\* generateUniqueFilename: `${name}-${timestamp}-${random}${ext}`
generateUniqueFilename(originalName, timestamp, random) ==
    LET ext == extname(originalName)
    IN  basename(originalName, ext) \o <<"-">> \o timestamp \o <<"-">> \o random
            \o ext

tempWord == <<"t", "e", "m", "p">>

\* /^[a-zA-Z0-9_-]+$/.test(tenantId)
TenantIdFormatOk(tenantId) ==
    /\ tenantId # Null
    /\ tenantId # <<>>
    /\ \A i \in 1..Len(tenantId) : IsIdChar(tenantId[i])

\* generateSecureObjectKey: the key, or the error it throws
generateSecureObjectKey(tenantId, originalFilename, documentId, timestamp, random) ==
    IF ~TenantIdFormatOk(tenantId)
    THEN [error |-> "Invalid tenant ID format", key |-> Null]
    ELSE LET sanitizedFilename == sanitizeFilename(originalFilename)
         IN  IF sanitizedFilename = Null \/ sanitizedFilename = <<>>
             THEN [error |-> "Invalid filename", key |-> Null]
             ELSE [error |-> "none",
                   key |-> getStorageKey(tenantId,
                              generateUniqueFilename(sanitizedFilename, timestamp, random),
                              IF documentId = Null \/ documentId = <<>>
                              THEN tempWord ELSE documentId)]

\* env.ALLOWED_FILE_TYPES.split(',').map(type => type.trim())
allowedTypes == {<<"p", "d", "f">>, <<"j", "p", "g">>}

\* env.MAX_FILE_SIZE
MAX_FILE_SIZE == 2

\* String.prototype.toLowerCase on the letters file names are built from
ToLower(s) ==
    [i \in 1..Len(s) |->
        CASE s[i] = "P" -> "p" [] s[i] = "D" -> "d" [] s[i] = "F" -> "f"
          [] OTHER -> s[i]]

RECURSIVE SplitOn(_, _)
SplitOn(s, sep) ==
    LET i == IndexOf(s, sep, 1)
    IN  IF i = 0 THEN <<s>>
        ELSE <<SubSeq(s, 1, i - 1)>> \o SplitOn(Drop(s, i), sep)

\* filename.split('.').pop().toLowerCase()
fileExtensionOf(filename) ==
    LET parts == SplitOn(filename, Dot)
    IN  ToLower(parts[Len(parts)])

mimeToExtension(mime) ==
    IF mime = "application/pdf"
        THEN {<<"p", "d", "f">>}
    ELSE IF mime = "application/msword"
        THEN {<<"d", "o", "c">>}
    ELSE IF mime = "application/vnd.openxmlformats-officedocument.wordprocessingml.document"
        THEN {<<"d", "o", "c", "x">>}
    ELSE IF mime = "text/plain"
        THEN {<<"t", "x", "t">>}
    ELSE IF mime = "text/markdown"
        THEN {<<"m", "d">>}
    ELSE IF mime = "application/vnd.ms-excel"
        THEN {<<"x", "l", "s">>}
    ELSE IF mime = "application/vnd.openxmlformats-officedocument.spreadsheetml.sheet"
        THEN {<<"x", "l", "s", "x">>}
    ELSE IF mime = "text/csv"
        THEN {<<"c", "s", "v">>}
    ELSE IF mime = "image/png"
        THEN {<<"p", "n", "g">>}
    ELSE IF mime = "image/jpeg"
        THEN {<<"j", "p", "g">>, <<"j", "p", "e", "g">>}
    ELSE IF mime = "image/gif"
        THEN {<<"g", "i", "f">>}
    ELSE IF mime = "image/webp"
        THEN {<<"w", "e", "b", "p">>}
    ELSE {}

MimeTypes ==
    {"application/pdf",
     "application/msword",
     "application/vnd.openxmlformats-officedocument.wordprocessingml.document",
     "text/plain",
     "text/markdown",
     "application/vnd.ms-excel",
     "application/vnd.openxmlformats-officedocument.spreadsheetml.sheet",
     "text/csv",
     "image/png",
     "image/jpeg",
     "image/gif",
     "image/webp"}

validateFileTypeAcceptsAll(mimeType, filename) == TRUE

validateFileType(mimeType, filename) ==
    LET fileExtension == fileExtensionOf(filename)
    IN  \/ fileExtension \in allowedTypes
        \/ /\ mimeType \in MimeTypes
           /\ fileExtension \in mimeToExtension(mimeType)
           /\ allowedTypes \cap mimeToExtension(mimeType) # {}

validateFileSize(fileSize) == fileSize <= MAX_FILE_SIZE

\* the checks of generatePresignedUploadUrl in their order: the error of the
\* first one that fails, or "none" with the generated key
uploadDecisionSizeFirst(tenantId, originalFilename, mimeType, fileSize, documentId, timestamp, random) ==
    IF tenantId = Null \/ tenantId = <<>>
    THEN [error |-> "Unauthorized: Missing tenant ID", key |-> Null]
    ELSE IF ~validateFileSize(fileSize)
    THEN [error |-> "File size exceeds maximum allowed size", key |-> Null]
    ELSE IF ~validateFileType(mimeType, originalFilename)
    THEN [error |-> "File type not allowed", key |-> Null]
    ELSE generateSecureObjectKey(tenantId, originalFilename, documentId,
                                 timestamp, random)

uploadDecision(tenantId, originalFilename, mimeType, fileSize, documentId, timestamp, random) ==
    IF tenantId = Null \/ tenantId = <<>>
    THEN [error |-> "Unauthorized: Missing tenant ID", key |-> Null]
    ELSE IF ~validateFileType(mimeType, originalFilename)
    THEN [error |-> "File type not allowed", key |-> Null]
    ELSE IF ~validateFileSize(fileSize)
    THEN [error |-> "File size exceeds maximum allowed size", key |-> Null]
    ELSE generateSecureObjectKey(tenantId, originalFilename, documentId,
                                 timestamp, random)

\* expiresIn of the presigned upload URL
uploadExpiresIn == 3600

UpDone(fn, tenantId, originalFilename, mimeType, fileSize, documentId, error, objectKey, presignedKey) ==
    up' = [pc |-> "done", fn |-> fn, tenantId |-> tenantId,
           filename |-> originalFilename, mimeType |-> mimeType,
           fileSize |-> fileSize, documentId |-> documentId, error |-> error,
           objectKey |-> objectKey, presignedKey |-> presignedKey]

\* generatePresignedUploadUrl(tenantId, originalFilename, mimeType, fileSize,
\* documentId); timestamp and random are Date.now() and crypto.randomBytes
generatePresignedUploadUrl(tenantId, originalFilename, mimeType, fileSize, documentId, timestamp, random) ==
    /\ up.pc = "idle"
    /\ LET decision == uploadDecision(tenantId, originalFilename, mimeType,
                                      fileSize, documentId, timestamp, random)
       IN  IF decision.error # "none"
           THEN /\ UpDone("generatePresignedUploadUrl", tenantId, originalFilename,
                          mimeType, fileSize, documentId, decision.error, Null, Null)
                /\ s3Calls' = s3Calls
           ELSE /\ s3Calls' = Append(s3Calls,
                       Presign("presignPutObject", "upload", tenantId,
                               decision.key, uploadExpiresIn))
                /\ \/ UpDone("generatePresignedUploadUrl", tenantId,
                             originalFilename, mimeType, fileSize, documentId,
                             "none", decision.key, decision.key)
                   \/ UpDone("generatePresignedUploadUrl", tenantId,
                             originalFilename, mimeType, fileSize, documentId,
                             "presign failed", Null, Null)
    /\ UNCHANGED <<bucket, backend, tenants, users, folders, documents,
                   auditLog, vectorStore, del, ing, lst, bat, dl, guard,
                   job, ctl, expired>>

\* a direct call of generateSecureObjectKey(tenantId, originalFilename, documentId)
GenerateKey(tenantId, originalFilename, documentId, timestamp, random) ==
    /\ up.pc = "idle"
    /\ LET made == generateSecureObjectKey(tenantId, originalFilename, documentId,
                                           timestamp, random)
       IN  UpDone("generateSecureObjectKey", tenantId, originalFilename, "none", 0,
                  documentId, made.error, made.key, Null)
    /\ UNCHANGED <<world, del, ing, lst, bat, dl, guard, job, ctl, expired>>

----------------------------------------------------------------------------
(* controllers/document.controller.js and services/file.service.js *)

\* FileService.validateTenantAccess: "ok", or the message of the error thrown
validateTenantAccess(storageKey, tenantId) ==
    IF ~StartsWith(storageKey, TenantPrefix(tenantId))
    THEN "Unauthorized access to storage key"
    ELSE LET parts == Split(storageKey)
         IN  IF Len(parts) < 4 \/ parts[3] # documentsWord
             THEN "Invalid storage key format"
             ELSE "ok"

\* documentService.getDocumentById(id, tenantId): the row of the tenant with
\* that id that is not deleted, or Null when there is none (an error is thrown)
getDocumentById(id, tenantId) ==
    IF /\ id \in DOMAIN documents
       /\ documents[id].tenantId = tenantId
       /\ ~documents[id].deleted
    THEN id ELSE Null

\* documentService.deleteDocument(id, tenantId): sets the soft-delete marker
softDeleteDocument(id) == [documents EXCEPT ![id].deleted = TRUE]

\* documentService.restoreDocument(id, tenantId): clears the marker
restoredDocument(id) == [documents EXCEPT ![id].deleted = FALSE]

\* DELETE /documents/:id up to the deletion of the file: the row is looked
\* up and soft-deleted; an error of either call goes to next(error)
CtlDeleteDocument(id, tenantId) ==
    /\ ctl.pc \in {"idle", "done"}
    /\ LET found == getDocumentById(id, tenantId)
           request == [CtlIdle EXCEPT !.op = "delete", !.id = id,
                                      !.tenantId = tenantId]
       IN  \/ /\ ctl' = [request EXCEPT !.pc = "done", !.status = 500]
              /\ documents' = documents
           \/ /\ found = Null
              /\ ctl' = [request EXCEPT !.pc = "done", !.status = 404]
              /\ documents' = documents
           \/ /\ found # Null
              /\ documents' = softDeleteDocument(id)
              /\ LET storageKey == documents[id].storageKey
                 IN  ctl' = [request EXCEPT
                               !.storageKey = storageKey,
                               !.stored = storageKey \in bucket,
                               !.status = 200,
                               !.pc = IF storageKey \in {Null, <<>>}
                                      THEN "done" ELSE "deleteFile"]
    /\ UNCHANGED <<bucket, backend, tenants, users, folders, auditLog,
                   vectorStore, s3Calls, del, ing, lst, bat, dl, up, guard,
                   job, expired>>

\* fileService.deleteFile(document.storageKey, req.tenantId) in its
\* try/catch: a key that validateTenantAccess rejects throws before any
\* request; else a DeleteObject is sent, and its failure is logged only
CtlDeleteFile ==
    /\ ctl.pc = "deleteFile"
    /\ ctl' = [ctl EXCEPT !.pc = "done"]
    /\ IF validateTenantAccess(ctl.storageKey, ctl.tenantId) # "ok"
       THEN UNCHANGED <<bucket, s3Calls>>
       ELSE /\ s3Calls' = Append(s3Calls, Call("DeleteObject", "file",
                                               ctl.tenantId, ctl.storageKey))
            /\ \/ bucket' = bucket
               \/ bucket' = bucket \ {ctl.storageKey}
    /\ UNCHANGED <<backend, tenants, users, folders, documents, auditLog,
                   vectorStore, del, ing, lst, bat, dl, up, guard, job,
                   expired>>

\* POST /documents/:id/restore
CtlRestoreDocument(id, tenantId) ==
    /\ ctl.pc \in {"idle", "done"}
    /\ LET found == /\ id \in DOMAIN documents
                    /\ documents[id].tenantId = tenantId
                    /\ documents[id].deleted
           request == [CtlIdle EXCEPT !.op = "restore", !.id = id,
                                      !.tenantId = tenantId, !.pc = "done"]
       IN  \/ /\ ~found
              /\ ctl' = [request EXCEPT !.status = 404]
              /\ documents' = documents
           \/ /\ found
              /\ documents' = restoredDocument(id)
              /\ ctl' = [request EXCEPT
                            !.status = 200,
                            !.storageKey = documents[id].storageKey,
                            !.stored = documents[id].storageKey \in bucket]
    /\ UNCHANGED <<bucket, backend, tenants, users, folders, auditLog,
                   vectorStore, s3Calls, del, ing, lst, bat, dl, up, guard,
                   job, expired>>

----------------------------------------------------------------------------
(* The holders of presigned URLs *)

\* the presigned upload URLs issued so far, as indexes of s3Calls
UploadCredentials ==
    {i \in 1..Len(s3Calls) : s3Calls[i].op = "presignPutObject"}

\* the validity of a presigned URL (expiresIn seconds) runs out; nothing
\* else ends it
CredentialExpires(i) ==
    /\ i \in UploadCredentials \ expired
    /\ expired' = expired \cup {i}
    /\ UNCHANGED <<world, del, ing, lst, bat, dl, up, guard, job, ctl>>

\* the holder of a presigned upload URL that is still valid sends its PUT:
\* the storage backend stores the object at the URL's key
ClientPut(i) ==
    /\ i \in UploadCredentials \ expired
    /\ s3Calls[i].arg \notin bucket
    /\ bucket' = bucket \cup {s3Calls[i].arg}
    /\ UNCHANGED <<backend, tenants, users, folders, documents, auditLog,
                   vectorStore, s3Calls, del, ing, lst, bat, dl, up, guard,
                   job, ctl, expired>>

----------------------------------------------------------------------------
(* Initial states and specifications *)

InitWorld(objects, kind, activeA, docs) ==
    /\ bucket = objects
    /\ backend = kind
    /\ tenants = {TenantA, TenantB}
    /\ users = UserRows(activeA)
    /\ folders = FolderRows
    /\ documents = docs
    /\ auditLog = <<>>
    /\ vectorStore = {}
    /\ s3Calls = <<>>

InitIdle ==
    /\ del = DelIdle
    /\ ing = [p \in Triggers |-> IngIdle]
    /\ lst = LstIdle
    /\ bat = BatIdle
    /\ dl = [s \in Slots |-> DlIdle]
    /\ up = UpIdle
    /\ guard = GuardIdle
    /\ job = JobIdle
    /\ ctl = CtlIdle
    /\ expired = {}

\* tenant ids the deletion workflow is called with: existing tenants, an
\* unknown tenant, an id with no allowed character, the empty id
DeleteTenantIds == {TenantA, TenantB, <<"c">>, <<"?">>, <<>>}

InitDelete ==
    /\ \E objects \in SUBSET KeySet(WorldKeys), kind \in {"honest", "faulty"},
          activeA \in BOOLEAN :
            InitWorld(objects, kind, activeA, BaseDocuments)
    /\ InitIdle

NextDelete ==
    \/ \E tenantId \in DeleteTenantIds, force \in BOOLEAN,
          mode \in {"s3only", "complete"} :
            DeleteTenantStart(tenantId, force, mode)
    \/ DelCheck
    \/ DelList
    \/ DelBatch
    \/ DelAudit
    \/ DelVerify
    \/ DelDb

SpecDelete == InitDelete /\ [][NextDelete]_vars

\* numbers of stored objects around the batch limit
BulkSizes ==
    {0, 1, batchSize - 1, batchSize, batchSize + 1, 2 * batchSize,
     2 * batchSize + batchSize \div 2}

\* a tenant with many stored objects, all its own, and an honest backend
InitBulk ==
    /\ \E n \in BulkSizes, activeA \in BOOLEAN :
          InitWorld(KeySet(BulkKeys(n)), "honest", activeA, BaseDocuments)
    /\ InitIdle

NextBulk ==
    \/ \E force \in BOOLEAN, mode \in {"s3only", "complete"} :
          DeleteTenantStart(TenantA, force, mode)
    \/ DelCheck
    \/ DelList
    \/ DelBatch
    \/ DelAudit
    \/ DelVerify
    \/ DelDb

SpecBulk == InitBulk /\ [][NextBulk]_vars

\* a key whose tenant segment is ..\a
KeyDots == getStorageKey(<<Dot, Dot, Backslash, "a">>, <<"f">>, <<"d", "1">>)

\* storage keys a document record may hold
IngestKeys == KeySet(WorldKeys) \cup {KeyDots, <<>>}

IngestTenantIds == {TenantA, TenantB}

IngestDocumentIds == DOMAIN BaseDocuments \cup {<<"d", "9">>}

chunksWord == <<"c", "h", "u", "n", "k", "s">>

InitIngest ==
    /\ \E objects \in SUBSET {KeyA1, KeyCtl, KeyB1}, kind \in {"honest", "faulty"} :
            InitWorld(objects, kind, TRUE, BaseDocuments)
    /\ InitIdle

\* a behaviour is one call of processDocument or one of listTenantDocuments
NextIngest ==
    \/ /\ lst.pc = "idle"
       /\ \E s3Key \in IngestKeys, tenantId \in IngestTenantIds,
             documentId \in IngestDocumentIds :
               IngStart("user", s3Key, tenantId, documentId)
    \/ \E p \in Triggers :
        \/ IngValidate(p)
        \/ IngFetch(p)
        \/ IngExtract(p)
        \/ IngSaveText(p)
        \/ IngEmbed(p)
        \/ IngStore(p)
        \/ IngReady(p)
        \/ IngCatch(p)
    \/ /\ \A p \in Triggers : ing[p].pc = "idle"
       /\ \E tenantId \in IngestTenantIds \cup {<<"?">>},
             subfolder \in {rawWord, chunksWord} :
               ListTenantDocuments(tenantId, subfolder)

SpecIngest == InitIngest /\ [][NextIngest]_vars

\* a key of tenant a that no other row holds
KeyA3 == getStorageKey(TenantA, <<"h">>, <<"d", "4">>)

\* document rows for processAllTenantDocuments: rows of tenant a with a valid
\* key, no key, a key of tenant b and a valid key again, in that order; a
\* row of tenant b; a soft-deleted row and a row that is READY
BatchDocuments ==
    [d \in {DocumentOrder[j] : j \in 1..7} |->
        CASE d = <<"d", "1">> -> Doc(TenantA, KeyA1)
          [] d = <<"d", "2">> -> Doc(TenantA, <<>>)
          [] d = <<"d", "3">> -> Doc(TenantA, KeyB1)
          [] d = <<"d", "4">> -> [Doc(TenantA, KeyA3) EXCEPT !.status = "EXTRACTED"]
          [] d = <<"d", "5">> -> Doc(TenantB, KeyB1)
          [] d = <<"d", "6">> -> [Doc(TenantA, KeyA2) EXCEPT !.deleted = TRUE]
          [] OTHER -> [Doc(TenantA, KeyA2) EXCEPT !.status = "READY"]]

InitBatch ==
    /\ \E objects \in {KeySet(WorldKeys) \cup {KeyA3}, {KeyA1, KeyB1}} :
          InitWorld(objects, "honest", TRUE, BatchDocuments)
    /\ InitIdle

NextBatch ==
    \/ \E tenantId \in IngestTenantIds : ProcessAllStart(tenantId)
    \/ ProcessAllNext
    \/ ProcessAllResume
    \/ IngValidate("batch")
    \/ IngFetch("batch")
    \/ IngExtract("batch")
    \/ IngSaveText("batch")
    \/ IngEmbed("batch")
    \/ IngStore("batch")
    \/ IngReady("batch")
    \/ IngCatch("batch")

SpecBatch == InitBatch /\ [][NextBatch]_vars

\* passes of the background job over the rows of two tenants
\* a row to process for each tenant, a row that is READY and a row that is
\* in ERROR
JobDocuments ==
    [d \in {DocumentOrder[j] : j \in 1..4} |->
        CASE d = <<"d", "1">> -> Doc(TenantA, KeyA1)
          [] d = <<"d", "2">> -> [Doc(TenantA, KeyA2) EXCEPT !.status = "READY"]
          [] d = <<"d", "3">> -> Doc(TenantB, KeyB1)
          [] OTHER -> [Doc(TenantB, KeyB1) EXCEPT !.status = "ERROR"]]

InitJob ==
    /\ \E objects \in {KeySet(WorldKeys), {KeyB1}} :
          InitWorld(objects, "honest", TRUE, JobDocuments)
    /\ InitIdle

NextJob ==
    \/ JobStart
    \/ JobNext
    \/ JobResume
    \/ JobAgain
    \/ ProcessAllNext
    \/ ProcessAllResume
    \/ IngValidate("batch")
    \/ IngFetch("batch")
    \/ IngExtract("batch")
    \/ IngSaveText("batch")
    \/ IngEmbed("batch")
    \/ IngStore("batch")
    \/ IngReady("batch")
    \/ IngCatch("batch")

SpecJob == InitJob /\ [][NextJob]_vars

\* a backlog of tenant a that is longer than a query's limit: a row with a
\* valid key, a row that is READY, then as many rows as the limit that the
\* loop skips (no key, or a key of tenant b), then a row with a valid key
BacklogDocuments ==
    [d \in {<<"d", "1">>, <<"d", "2">>, LastDocumentId}
            \cup {BulkDocumentId(i) : i \in 1..take} |->
        CASE d = <<"d", "1">> -> Doc(TenantA, KeyA1)
          [] d = <<"d", "2">> -> [Doc(TenantA, KeyA2) EXCEPT !.status = "READY"]
          [] d = LastDocumentId -> Doc(TenantA, KeyA3)
          [] OTHER -> IF Len(d) % 2 = 0 THEN Doc(TenantA, <<>>)
                      ELSE Doc(TenantA, KeyB1)]

InitBacklog ==
    /\ \E objects \in {KeySet(WorldKeys) \cup {KeyA3}, {KeyB1}} :
          InitWorld(objects, "honest", TRUE, BacklogDocuments)
    /\ InitIdle

SpecBacklog == InitBacklog /\ [][NextJob]_vars

\* a backlog of tenant a whose first rows, as many as the limit, are rows
\* that the loop skips (no key, or the key x that is no key of the tenant),
\* with a row with a valid key and a stored object behind them
ProgressDocuments ==
    [d \in {LastDocumentId} \cup {BulkDocumentId(i) : i \in 1..take} |->
        IF d = LastDocumentId THEN Doc(TenantA, KeyA3)
        ELSE IF Len(d) % 2 = 0 THEN Doc(TenantA, <<>>)
        ELSE Doc(TenantA, <<"x">>)]

InitProgress ==
    /\ \E objects \in {{KeyA3, KeyB1}, {KeyA3}} :
          InitWorld(objects, "honest", TRUE, ProgressDocuments)
    /\ InitIdle

\* the passes of the job, one after another without end; no row of this
\* backlog is ever handed to processDocument
NextProgress ==
    \/ JobStart
    \/ JobNext
    \/ JobResume
    \/ JobRepeat
    \/ ProcessAllNext

\* the timer keeps firing and every step of a pass that can be taken is
\* taken
SpecProgress ==
    /\ InitProgress
    /\ [][NextProgress]_vars
    /\ WF_vars(JobStart)
    /\ WF_vars(JobNext)
    /\ WF_vars(JobResume)
    /\ WF_vars(JobRepeat)
    /\ WF_vars(ProcessAllNext)

\* a user's trigger and a batch pass at the same time, over a row of each
\* tenant
RaceDocuments ==
    [d \in {<<"d", "1">>, <<"d", "3">>} |->
        IF d = <<"d", "1">> THEN Doc(TenantA, KeyA1) ELSE Doc(TenantB, KeyB1)]

RaceDocumentIds == DOMAIN RaceDocuments \cup {<<"d", "9">>}

RaceTenantIds == {TenantA, TenantB, <<"a", "SOH">>}

InitRace ==
    /\ \E objects \in {{KeyA1, KeyB1}, {KeyA1}} :
          InitWorld(objects, "honest", TRUE, RaceDocuments)
    /\ InitIdle

NextRace ==
    \/ /\ ing["user"].pc = "idle"
       /\ \E documentId \in RaceDocumentIds, tenantId \in RaceTenantIds :
             JobProcessDocument(documentId, tenantId)
    \/ \E tenantId \in IngestTenantIds : ProcessAllStart(tenantId)
    \/ ProcessAllNext
    \/ ProcessAllResume
    \/ \E p \in Triggers :
        \/ IngValidate(p)
        \/ IngFetch(p)
        \/ IngExtract(p)
        \/ IngSaveText(p)
        \/ IngEmbed(p)
        \/ IngStore(p)
        \/ IngReady(p)
        \/ IngCatch(p)

SpecRace == InitRace /\ [][NextRace]_vars

\* document rows for the download requests: open, restricted by its own
\* roles, of another tenant, soft-deleted, restricted by its folder, restricted
\* by both, and with storage keys the download service has to reject
DownloadDocuments ==
    LET ids == {<<"d", "1">>, <<"d", "2">>, <<"d", "3">>, <<"d", "4">>,
                <<"d", "5">>, <<"d", "6">>, <<"d", "7">>, <<"d", "8">>}
    IN  [d \in ids |->
          CASE d = <<"d", "1">> -> Doc(TenantA, KeyA1)
            [] d = <<"d", "2">> -> [Doc(TenantA, KeyA2) EXCEPT !.allowedRoles = {"admin"}]
            [] d = <<"d", "3">> -> Doc(TenantB, KeyB1)
            [] d = <<"d", "4">> -> [Doc(TenantA, KeyA1) EXCEPT !.deleted = TRUE]
            [] d = <<"d", "5">> -> [Doc(TenantA, KeyA1) EXCEPT !.hasFolder = TRUE,
                                        !.folderRoles = {"admin"}]
            [] d = <<"d", "6">> -> [Doc(TenantA, KeyCtl) EXCEPT !.hasFolder = TRUE,
                                        !.allowedRoles = {"staff"},
                                        !.folderRoles = {"admin"}]
            [] d = <<"d", "7">> -> Doc(TenantA, <<>>)
            [] OTHER -> Doc(TenantA, KeyStray)]

DownloadDocumentIds == DOMAIN DownloadDocuments \cup {<<"d", "9">>, <<>>}

DownloadTenantIds == {TenantA, TenantB, <<>>}

DownloadRoles == {{}, {"staff"}, {"admin"}}

InitDownload ==
    /\ InitWorld(KeySet(WorldKeys), "honest", TRUE, DownloadDocuments)
    /\ InitIdle

NextDownload ==
    \E slot \in Slots, documentId \in DownloadDocumentIds,
       userTenantId \in DownloadTenantIds, userRoles \in DownloadRoles :
        getDownloadUrl(slot, documentId, userTenantId, userRoles)

SpecDownload == InitDownload /\ [][NextDownload]_vars

\* the storage requests that a behaviour of delete and restore requests
\* may hold
MaxCalls == 2

\* ids and tenants of delete and restore requests: rows with a stored
\* object, a row without a key, a row whose key has three segments, a row
\* that is deleted already, an unknown id
DocsDocumentIds ==
    {<<"d", "1">>, <<"d", "2">>, <<"d", "3">>, <<"d", "4">>, <<"d", "7">>,
     <<"d", "8">>, <<"d", "9">>}

InitDocs ==
    /\ InitWorld(KeySet(WorldKeys), "honest", TRUE, DownloadDocuments)
    /\ InitIdle

NextDocs ==
    \/ /\ Len(s3Calls) < MaxCalls
       /\ \E id \in DocsDocumentIds, tenantId \in {TenantA, TenantB} :
             CtlDeleteDocument(id, tenantId)
    \/ CtlDeleteFile
    \/ \E id \in DocsDocumentIds, tenantId \in {TenantA, TenantB} :
          CtlRestoreDocument(id, tenantId)

SpecDocs == InitDocs /\ [][NextDocs]_vars

----------------------------------------------------------------------------
(* Inputs of the guard functions: keys and tenant ids built from any of the *)
(* characters of GuardAlphabet.                                            *)

MaxSegLen == 2

MaxIdLen == 2

GuardAlphabet == {"a", "?", Dot, Slash, Backslash, "SOH"}

RECURSIVE StringsUpTo(_, _)
StringsUpTo(alphabet, n) ==
    IF n = 0 THEN {<<>>}
    ELSE LET shorter == StringsUpTo(alphabet, n - 1)
         IN  shorter \cup {Append(s, c) : s \in shorter, c \in alphabet}

GuardHeads == {tenantsWord \o <<Slash>>, <<"t", Slash>>}

GuardMids == {<<Slash>> \o documentsWord \o <<Slash>>, <<Slash>>}

GuardTails == {rawWord \o <<Slash, "f">>, <<"f">>}

GuardKeys ==
    {h \o x \o m \o t :
        h \in GuardHeads, x \in StringsUpTo(GuardAlphabet, MaxSegLen),
        m \in GuardMids, t \in GuardTails}

GuardTenantIds == StringsUpTo(GuardAlphabet, MaxIdLen)

InitGuard ==
    /\ InitWorld({}, "honest", FALSE, BaseDocuments)
    /\ del = DelIdle
    /\ ing = [p \in Triggers |-> IngIdle]
    /\ lst = LstIdle
    /\ bat = BatIdle
    /\ dl = [s \in Slots |-> DlIdle]
    /\ up = UpIdle
    /\ guard = GuardIdle
    /\ job = JobIdle
    /\ ctl = CtlIdle
    /\ expired = {}

\* one evaluation of the guard on a key and a tenant id, and of the
\* validators of the download service and of the file service on the same
\* key and tenant id
GuardCheck(k, t) ==
    /\ guard' = [fn |-> "validateS3Key", key |-> k, tenantId |-> t,
                 extracted |-> extractTenantId(k),
                 valid |-> validateS3Key(k, t),
                 download |-> DownloadValidateS3Key(k, t),
                 file |-> validateTenantAccess(k, t) = "ok"]
    /\ UNCHANGED <<world, del, ing, lst, bat, dl, up, job, ctl, expired>>

NextGuard ==
    /\ guard.fn = "none"
    /\ \E k \in GuardKeys, t \in GuardTenantIds : GuardCheck(k, t)

SpecGuard == InitGuard /\ [][NextGuard]_vars

----------------------------------------------------------------------------
(* Inputs of key building and key sanitizing *)

\* tenant ids, document ids, file names and stages given to generateSecureS3Key
BuildTenantIds == StringsUpTo({"a", "?", Slash}, MaxIdLen)

BuildDocumentIds == {<<>>, <<"d">>, <<"d", "?">>, <<"?">>, <<Dot, Dot, Slash>>}

\* nested traversal sequences: one pass of removal leaves a sequence behind
NestedTraversals ==
    {<<Dot, Dot, Dot, Dot, Slash, Slash>>,
     <<Dot, Dot, Dot, Dot, Backslash, Slash>>,
     <<"f", Slash, Dot, Slash, Dot, Dot, Dot>>}

BuildFilenames ==
    StringsUpTo({"f", Dot, Slash, "SOH"}, MaxSegLen) \cup NestedTraversals

BuildStages == {rawWord, chunksWord, <<Dot, Dot>>}

\* generateSecureS3Key followed by validateS3Key of the key it built
GuardBuild(t, d, f, stage) ==
    /\ LET built == generateSecureS3Key(t, d, f, stage)
       IN  guard' = [fn |-> "generateSecureS3Key", tenantId |-> t,
                     documentId |-> d, filename |-> f, stage |-> stage,
                     key |-> built,
                     valid |-> IF built = Null THEN FALSE
                               ELSE validateS3Key(built, t)]
    /\ UNCHANGED <<world, del, ing, lst, bat, dl, up, job, ctl, expired>>

\* keys given to sanitizeS3Key
SanitizeKeys ==
    (StringsUpTo(GuardAlphabet, MaxSegLen) \ {<<>>}) \cup NestedTraversals

\* sanitizeS3Key applied once and applied to its own output
GuardSanitize(k) ==
    /\ guard' = [fn |-> "sanitizeS3Key", key |-> k, once |-> sanitizeS3Key(k),
                 twice |-> sanitizeS3Key(sanitizeS3Key(k))]
    /\ UNCHANGED <<world, del, ing, lst, bat, dl, up, job, ctl, expired>>

NextBuild ==
    \/ /\ guard.fn = "none"
       /\ \E t \in BuildTenantIds, d \in BuildDocumentIds, f \in BuildFilenames,
             stage \in BuildStages :
               GuardBuild(t, d, f, stage)
    \/ /\ guard.fn = "none"
       /\ \E k \in SanitizeKeys : GuardSanitize(k)

SpecBuild == InitGuard /\ [][NextBuild]_vars

----------------------------------------------------------------------------
(* Inputs of the upload service *)

MaxStemLen == 2

\* characters of caller-supplied file names
FilenameAlphabet == {"a", Dot, Slash, Backslash, "NUL"}

FilenameExtensions ==
    {<<>>, <<".", "p", "d", "f">>, <<".", "P", "D", "F">>, <<".", "j", "p", "e", "g">>, <<".", "e", "x", "e">>}

\* a stem of any characters, then nothing or an extension
Filenames ==
    {stem \o ext : stem \in StringsUpTo(FilenameAlphabet, MaxStemLen),
                   ext \in FilenameExtensions}

UploadTenantIds == {TenantA, <<>>, <<"a", Slash>>, <<Dot, Dot>>}

UploadMimeTypes == {"application/pdf", "image/jpeg", "application/x-msdownload"}

\* no document id, a plain one, and ids with a separator or a dot-dot
UploadDocumentIds == {Null, <<"d", "1">>, <<Dot, Dot>>, <<"a", Slash, "b">>}

Timestamps == {<<"1">>}

Randoms == {<<"f">>}

InitUpload ==
    /\ InitWorld({}, "honest", TRUE, BaseDocuments)
    /\ InitIdle

NextUpload ==
    \/ /\ up.pc = "idle"
       /\ \E tenantId \in UploadTenantIds, filename \in Filenames,
             mimeType \in UploadMimeTypes, fileSize \in 0..(MAX_FILE_SIZE + 1),
             documentId \in UploadDocumentIds, timestamp \in Timestamps,
             random \in Randoms :
               generatePresignedUploadUrl(tenantId, filename, mimeType, fileSize,
                                          documentId, timestamp, random)
    \/ /\ up.pc = "idle"
       /\ \E tenantId \in UploadTenantIds, filename \in Filenames,
             documentId \in UploadDocumentIds, timestamp \in Timestamps,
             random \in Randoms :
               GenerateKey(tenantId, filename, documentId, timestamp, random)

SpecUpload == InitUpload /\ [][NextUpload]_vars

\* an upload URL issued for tenant a, then the complete deletion of tenant
\* a, with the URL's holder and its expiry at any time
InitRevoke ==
    /\ \E objects \in {{KeyA1, KeyA2, KeyB1}, {KeyB1}}, activeA \in BOOLEAN :
          InitWorld(objects, "honest", activeA, BaseDocuments)
    /\ InitIdle

NextRevoke ==
    \/ /\ up.pc = "idle"
       /\ del.pc = "idle"
       /\ \E filename \in {<<"a", Dot, "p", "d", "f">>, <<"a", Dot, "e", "x", "e">>} :
             generatePresignedUploadUrl(TenantA, filename, "application/pdf", 1,
                                        <<"d", "1">>, <<"1">>, <<"f">>)
    \/ \E force \in BOOLEAN : DeleteTenantStart(TenantA, force, "complete")
    \/ DelCheck
    \/ DelList
    \/ DelBatch
    \/ DelAudit
    \/ DelVerify
    \/ DelDb
    \/ \E i \in 1..Len(s3Calls) : ClientPut(i)
    \/ \E i \in 1..Len(s3Calls) : CredentialExpires(i)

SpecRevoke == InitRevoke /\ [][NextRevoke]_vars

\* C1: a key whose tenant segment is A never validates for a tenant id B # A
C1_NoCrossTenantValidation ==
    guard.fn = "validateS3Key" =>
        ((guard.extracted # Null /\ guard.extracted # guard.tenantId)
            => ~guard.valid)

----------------------------------------------------------------------------
(* Claims about the tenant deletion workflow *)

DeleteCalls == {i \in 1..Len(s3Calls) : s3Calls[i].op = "DeleteObjects"}

\* the rows of the tenants other than tenantId
OtherRows(tenantId) ==
    <<[d \in {x \in DOMAIN documents : documents[x].tenantId # tenantId}
          |-> documents[d]],
      {f \in folders : f.tenantId # tenantId},
      {u \in users : u.tenantId # tenantId},
      tenants \ {tenantId}>>

\* the stored objects that are not under tenants/{tenantId}/
OtherObjects(tenantId) ==
    {k \in bucket : ~StartsWith(k, TenantPrefix(tenantId))}

\* C2: tenant deletion for T sends only keys under tenants/T/ in its
\* DeleteObjects batches and leaves the stored objects and the rows of every
\* other tenant unchanged, whatever the listing returns
C2_DeletionTouchesOnlyTenant ==
    /\ [](\A i \in DeleteCalls : \A j \in 1..Len(s3Calls[i].arg) :
            StartsWith(s3Calls[i].arg[j], TenantPrefix(s3Calls[i].tenantId)))
    /\ [][del.pc # "idle" =>
            /\ OtherObjects(del.tenantId)' = OtherObjects(del.tenantId)
            /\ OtherRows(del.tenantId)' = OtherRows(del.tenantId)]_vars

\* the listing of the running workflow holds a key the guard rejects
ListingHasInvalidKey ==
    /\ del.pc \notin {"idle", "check", "list"}
    /\ \E j \in 1..Len(del.objectsToDelete) :
          ~validateS3Key(del.objectsToDelete[j], del.tenantId)

\* C3: when the listing under tenants/T/ holds a key that fails
\* validateS3Key(key, T), the workflow has failed and has sent no
\* DeleteObjects request, not even for the valid keys of the listing
C3_AbortBeforeAnyDelete ==
    ListingHasInvalidKey =>
        /\ del.pc = "failed"
        /\ del.error = "Invalid objects found in tenant prefix"
        /\ DeleteCalls = {}

\* a listing with a valid and an invalid key was aborted
C3_Witness ==
    /\ ListingHasInvalidKey
    /\ \E j \in 1..Len(del.objectsToDelete) :
          validateS3Key(del.objectsToDelete[j], del.tenantId)
    /\ del.pc = "failed"

RowsOf(tenantId) ==
    <<{x \in DOMAIN documents : documents[x].tenantId = tenantId},
      {f \in folders : f.tenantId = tenantId},
      {u \in users : u.tenantId = tenantId},
      tenants \cap {tenantId}>>

\* C4: deleteTenantComplete deletes relational records of T only in its
\* database step, after deleteTenantS3Data has returned and the re-listing of
\* tenants/T/ returned zero objects; a run that fails has deleted none
C4_RecordsOnlyAfterVerifiedEmpty ==
    [][(<<documents, folders, users, tenants>>' # <<documents, folders, users, tenants>>)
        => /\ del.pc = "db"
           /\ del.mode = "complete"
           /\ del.s3Deletion = "returned"
           /\ del.verification = TRUE
           /\ del.remaining = 0
           /\ s3Calls[Len(s3Calls)].op = "ListObjectsV2"
           /\ del'.pc = "done"]_vars

\* a tenant with stored objects was deleted completely
C4_Witness ==
    /\ del.pc = "done"
    /\ del.mode = "complete"
    /\ del.totalDeleted > 0
    /\ del.tenantId \notin tenants
    /\ RowsOf(del.tenantId) = <<{}, {}, {}, {}>>

----------------------------------------------------------------------------
(* Claims about the ingestion service *)

GetCalls == {i \in 1..Len(s3Calls) : s3Calls[i].op = "GetObject"}

\* C5: processDocument with a key that fails validateS3Key(key, tenantId)
\* returns false and fetches nothing, writes no embedding and changes no
\* document row
C5_InvalidKeySkipped ==
    \A p \in Triggers :
        (/\ ing[p].pc \notin {"idle", "validate"}
         /\ ~validateS3Key(ing[p].s3Key, ing[p].tenantId))
        => /\ ing[p].pc = "done"
           /\ ing[p].result = FALSE
           /\ GetCalls = {}
           /\ vectorStore = {}
           /\ documents = BaseDocuments

\* a key of tenant b was given to processDocument for tenant a
C5_Witness ==
    \E p \in Triggers :
        /\ ing[p].pc = "done"
        /\ ing[p].tenantId = TenantA
        /\ extractTenantId(ing[p].s3Key) = TenantB
        /\ ~validateS3Key(ing[p].s3Key, ing[p].tenantId)
        /\ ing[p].documentId \in DOMAIN documents

\* C6: the key of every GetObject of processDocument and the prefix of every
\* ListObjectsV2 of listTenantDocuments starts with tenants/{tenantId}/, for
\* the tenantId the operation was called with
C6_IngestionRequestsScoped ==
    \A i \in 1..Len(s3Calls) :
        s3Calls[i].by = "ingestion"
            => StartsWith(s3Calls[i].arg, TenantPrefix(s3Calls[i].tenantId))

----------------------------------------------------------------------------
(* Claims about the download service *)

\* the document row a request names grants it a download
DownloadGranted(documentId, userTenantId, userRoles) ==
    /\ documentId \in DOMAIN documents
    /\ documents[documentId].tenantId = userTenantId
    /\ ~documents[documentId].deleted
    /\ checkUserAccess(documents[documentId], userRoles)
    /\ documents[documentId].storageKey # <<>>
    /\ DownloadValidateS3Key(documents[documentId].storageKey, userTenantId)

\* C7: a read credential is returned only for a document of the caller's
\* tenant that is not soft-deleted, that the roles may access and whose
\* non-empty storage key passes the key validation; the presigned key is the
\* document's storageKey, and no presign call is made in any other case
C7_CredentialOnlyWhenGranted ==
    /\ \A slot \in Slots :
          (dl[slot].pc = "done" /\ dl[slot].key # Null)
            => /\ DownloadGranted(dl[slot].documentId, dl[slot].userTenantId,
                                  dl[slot].userRoles)
               /\ dl[slot].key = documents[dl[slot].documentId].storageKey
               /\ dl[slot].status = "OK"
    /\ \A i \in 1..Len(s3Calls) :
          \E slot \in Slots :
            /\ dl[slot].pc = "done"
            /\ DownloadGranted(dl[slot].documentId, dl[slot].userTenantId,
                               dl[slot].userRoles)
            /\ s3Calls[i].op = "presignGetObject"
            /\ s3Calls[i].tenantId = dl[slot].userTenantId
            /\ s3Calls[i].arg = documents[dl[slot].documentId].storageKey

\* one request got a credential and another, for a document of another
\* tenant, got none
C7_Witness ==
    \E s1, s2 \in Slots :
        /\ dl[s1].pc = "done" /\ dl[s1].key = KeyA2 /\ dl[s1].userRoles = {"admin"}
        /\ dl[s2].pc = "done" /\ dl[s2].key = Null
        /\ dl[s2].documentId = <<"d", "3">> /\ dl[s2].userTenantId = TenantA
        /\ Len(s3Calls) = 1

\* why a request is refused by validateDocumentAccess, "none" if it is not
DenialCase(documentId, userTenantId, userRoles) ==
    IF documentId \notin DOMAIN documents THEN "missing"
    ELSE IF documents[documentId].tenantId # userTenantId THEN "other tenant"
    ELSE IF documents[documentId].deleted THEN "soft-deleted"
    ELSE IF ~checkUserAccess(documents[documentId], userRoles) THEN "roles"
    ELSE "none"

DlCase(slot) ==
    IF dl[slot].pc # "done" \/ dl[slot].documentId = <<>>
           \/ dl[slot].userTenantId = <<>>
    THEN "none"
    ELSE DenialCase(dl[slot].documentId, dl[slot].userTenantId, dl[slot].userRoles)

\* C8: two download requests refused for any of the reasons missing, other
\* tenant, soft-deleted, roles not allowed get the same response: status 403,
\* the same message and no credential
C8_DenialsIndistinguishable ==
    \A s1, s2 \in Slots :
        (DlCase(s1) # "none" /\ DlCase(s2) # "none")
            => /\ dl[s1].status = dl[s2].status
               /\ dl[s1].message = dl[s2].message
               /\ dl[s1].key = dl[s2].key
               /\ dl[s1].status = "FORBIDDEN"

\* a request for a document of another tenant and one refused for its roles
C8_Witness ==
    \E s1, s2 \in Slots :
        /\ DlCase(s1) = "other tenant"
        /\ DlCase(s2) = "roles"

----------------------------------------------------------------------------
(* Claims about the upload service *)

PresignCalls == SelectSeq(s3Calls, LAMBDA c : c.op = "presignPutObject")

\* the error the checks of an upload request must end in, taken in the order
\* tenant id, file type, file size, key generation; "none" when all pass
FirstFailingCheck ==
    IF up.tenantId = Null \/ up.tenantId = <<>>
    THEN "Unauthorized: Missing tenant ID"
    ELSE IF ~validateFileType(up.mimeType, up.filename)
    THEN "File type not allowed"
    ELSE IF ~validateFileSize(up.fileSize)
    THEN "File size exceeds maximum allowed size"
    ELSE IF ~TenantIdFormatOk(up.tenantId)
    THEN "Invalid tenant ID format"
    ELSE IF sanitizeFilename(up.filename) \in {Null, <<>>}
    THEN "Invalid filename"
    ELSE "none"

\* C9: an upload request fails with the error of the first failing check
\* (tenant id, file type, file size, key generation, in that order) and then
\* makes no presign call and returns no key; when every check passes it makes
\* exactly one presign call, for the generated key, with a 3600-second expiry,
\* and a credential it returns is for that key
C9_UploadChecksInOrder ==
    up.fn = "generatePresignedUploadUrl" =>
        /\ FirstFailingCheck # "none" =>
              /\ up.error = FirstFailingCheck
              /\ Len(PresignCalls) = 0
              /\ up.objectKey = Null
              /\ up.presignedKey = Null
        /\ FirstFailingCheck = "none" =>
              /\ Len(PresignCalls) = 1
              /\ PresignCalls[1].expiresIn = 3600
              /\ StartsWith(PresignCalls[1].arg,
                            TenantPrefix(up.tenantId) \o documentsWord \o <<Slash>>
                                \o rawWord \o <<Slash>>)
              /\ up.error = "none" =>
                    /\ up.objectKey = PresignCalls[1].arg
                    /\ up.presignedKey = PresignCalls[1].arg
              /\ up.error # "none" =>
                    /\ up.objectKey = Null
                    /\ up.presignedKey = Null

\* an oversized file of a type that is not allowed was refused for its type,
\* and a request passing every check got its credential
C9_Witness ==
    /\ up.fn = "generatePresignedUploadUrl"
    /\ up.tenantId = TenantA
    /\ ~validateFileType(up.mimeType, up.filename)
    /\ ~validateFileSize(up.fileSize)
    /\ up.error = "File type not allowed"
    /\ Len(PresignCalls) = 0

C9_WitnessGranted ==
    /\ up.fn = "generatePresignedUploadUrl"
    /\ up.error = "none"
    /\ up.presignedKey # Null
    /\ Len(PresignCalls) = 1

\* C10: a key made by generateSecureObjectKey starts with
\* tenants/{tenantId}/documents/raw/, has exactly six segments and no segment
\* equal to "..", for any file name and any optional document id
C10_KeyHasCanonicalShape ==
    (up.fn = "generateSecureObjectKey" /\ up.error = "none") =>
        /\ StartsWith(up.objectKey,
                      TenantPrefix(up.tenantId) \o documentsWord \o <<Slash>>
                          \o rawWord \o <<Slash>>)
        /\ Len(SplitOn(up.objectKey, Slash)) = 6
        /\ \A i \in 1..Len(SplitOn(up.objectKey, Slash)) :
              SplitOn(up.objectKey, Slash)[i] # <<Dot, Dot>>

\* the same for requests whose document id is absent or has no separator and
\* is not "..": the file name alone never breaks the shape
C10_ShapeForPlainDocumentIds ==
    (/\ up.fn = "generateSecureObjectKey"
     /\ up.error = "none"
     /\ up.documentId \in {Null, <<"d", "1">>}) =>
        /\ Len(SplitOn(up.objectKey, Slash)) = 6
        /\ \A i \in 1..6 : SplitOn(up.objectKey, Slash)[i] # <<Dot, Dot>>

----------------------------------------------------------------------------
(* Claims about the guard functions *)

\* s holds the sequence p somewhere
Contains(s, p) == \E i \in 1..Len(s) : StartsWith(Drop(s, i - 1), p)

\* C11: a key built by generateSecureS3Key validates for the tenant id it was
\* built for, and is tenants/{sanitized tenantId}/documents/{stage}/
\* {sanitized documentId}/{sanitized filename}
C11_BuiltKeyValidates ==
    (guard.fn = "generateSecureS3Key" /\ guard.key # Null) =>
        /\ guard.valid
        /\ guard.key =
              TenantPrefix(sanitizeTenantId(guard.tenantId)) \o documentsWord
                  \o <<Slash>> \o guard.stage \o <<Slash>>
                  \o sanitizeTenantId(guard.documentId) \o <<Slash>>
                  \o sanitizeS3Key(guard.filename)

\* a key was built from a tenant id that sanitizing changes and a file name
\* whose sanitized form still holds a traversal sequence
C11_Witness ==
    /\ guard.fn = "generateSecureS3Key"
    /\ guard.key # Null
    /\ guard.valid
    /\ guard.tenantId # sanitizeTenantId(guard.tenantId)
    /\ guard.filename \in NestedTraversals

\* C12: sanitizeS3Key applied to its own output changes nothing, and its
\* output holds no ../, no ..\, no /.. and no control character
C12_SanitizeIdempotent ==
    guard.fn = "sanitizeS3Key" =>
        /\ guard.twice = guard.once
        /\ ~Contains(guard.once, DotDotSlash)
        /\ ~Contains(guard.once, DotDotBackslash)
        /\ ~Contains(guard.once, SlashDotDot)
        /\ \A i \in 1..Len(guard.once) : ~IsControlChar(guard.once[i])

----------------------------------------------------------------------------
(* Claims about the storage deletion workflow: pre-conditions, batches, *)
(* audit and verification                                               *)

\* the rows the pre-conditions read are those of the call: the workflow has
\* not removed them
RowsAsAtCall == del.pc \notin {"idle", "done"} \/ del.mode = "s3only"

\* a pre-condition of the call does not hold
PreconditionFails ==
    \/ sanitizeTenantId(del.tenantId) = Null
    \/ del.tenantId \notin tenants
    \/ (activeUsers(del.tenantId) > 0 /\ ~del.force)

\* C13: when the tenant id sanitizes to nothing, the tenant does not exist, or
\* it has an ACTIVE user and force is not set, deleteTenantS3Data throws with
\* no list request, no delete request and no audit-log entry; with force set
\* the active-user check never blocks
C13_PreconditionsBeforeStorage ==
    (del.pc # "idle" /\ RowsAsAtCall) =>
        /\ PreconditionFails =>
              /\ del.pc \in {"check", "failed"}
              /\ s3Calls = <<>>
              /\ auditLog = <<>>
        /\ (PreconditionFails /\ del.pc = "failed") =>
              del.error \in {"Invalid tenant ID format", "Tenant not found",
                             "Tenant has active users"}
        /\ del.force => del.error # "Tenant has active users"

\* a tenant with an ACTIVE user was refused without force, and with force
\* the workflow went on to list the tenant's objects
C13_Witness ==
    /\ del.pc = "failed"
    /\ del.tenantId = TenantA
    /\ activeUsers(TenantA) > 0
    /\ ~del.force
    /\ del.error = "Tenant has active users"
    /\ s3Calls = <<>>

C13_WitnessForce ==
    /\ del.tenantId = TenantA
    /\ activeUsers(TenantA) > 0
    /\ del.force
    /\ Len(s3Calls) > 0

\* the key lists of the DeleteObjects requests sent so far, in order
DeleteBatches ==
    LET sent == SelectSeq(s3Calls, LAMBDA c : c.op = "DeleteObjects")
    IN  [b \in 1..Len(sent) |-> sent[b].arg]

\* the batches one after the other
RECURSIVE Concat(_)
Concat(batches) ==
    IF batches = <<>> THEN <<>> ELSE Head(batches) \o Concat(Tail(batches))

\* the batch loop has ended without a failed request
LoopDone == del.pc = "audit" \/ del.s3Deletion = "returned"

\* C14: for a listing of n valid keys the workflow sends ceil(n / 1000)
\* DeleteObjects requests, each of at most 1000 keys, which taken in order are
\* the listing cut into consecutive pieces; for n = 0 it sends none and
\* returns deletedCount 0 without error
C14_BatchesPartitionListing ==
    /\ \A b \in 1..Len(DeleteBatches) :
          /\ Len(DeleteBatches[b]) <= 1000
          /\ b < Len(DeleteBatches) => Len(DeleteBatches[b]) = 1000
    /\ Len(Concat(DeleteBatches)) <= Len(del.objectsToDelete)
    /\ Concat(DeleteBatches)
          = SubSeq(del.objectsToDelete, 1, Len(Concat(DeleteBatches)))
    /\ LoopDone =>
          /\ Concat(DeleteBatches) = del.objectsToDelete
          /\ Len(DeleteBatches) = (Len(del.objectsToDelete) + 999) \div 1000
          /\ Len(del.objectsToDelete) = 0 =>
                /\ del.totalDeleted = 0
                /\ del.s3Deletion = "returned"

\* 2500 keys went out as 1000, 1000 and 500
C14_Witness ==
    /\ LoopDone
    /\ Len(del.objectsToDelete) = 2500
    /\ Len(DeleteBatches) = 3
    /\ Len(DeleteBatches[1]) = 1000
    /\ Len(DeleteBatches[2]) = 1000
    /\ Len(DeleteBatches[3]) = 500

\* 1000 keys in one request, 1001 in two, and none for an empty listing
C14_WitnessBoundary ==
    /\ LoopDone
    /\ Len(del.objectsToDelete) = 1001
    /\ Len(DeleteBatches) = 2
    /\ Len(DeleteBatches[2]) = 1

C14_WitnessEmpty ==
    /\ del.s3Deletion = "returned"
    /\ Len(del.objectsToDelete) = 0
    /\ Len(s3Calls) > 0
    /\ DeleteBatches = <<>>

\* C15: a DeleteObjects result that reports some keys as errors does not stop
\* the loop: the next batch is sent, or after the last batch the workflow
\* returns; deletedCount grows by the number of keys the backend reported
\* deleted and never exceeds requestedDeletionCount
C15_PartialErrorsCounted ==
    /\ [](del.totalDeleted <= Len(del.validObjects))
    /\ [][(del.pc = "batch" /\ del'.error # "delete failed") =>
            /\ del'.totalDeleted = del.totalDeleted + Cardinality(bucket \ bucket')
            /\ del'.validObjects = del.validObjects
            /\ del'.pc = IF Len(Concat(DeleteBatches')) < Len(del.validObjects)
                         THEN "batch" ELSE "audit"]_vars
    /\ [][(del.pc = "audit") =>
            /\ del'.s3Deletion = "returned"
            /\ del'.pc # "failed"
            /\ del'.totalDeleted = del.totalDeleted]_vars

\* a batch reported an error for one key, a second batch was still sent, and
\* the workflow returned with deletedCount below requestedDeletionCount
C15_Witness ==
    /\ del.s3Deletion = "returned"
    /\ Len(DeleteBatches) = 2
    /\ del.totalDeleted = Len(del.validObjects) - 1
    /\ Cardinality(bucket) = 1

\* C16: a DeleteObjects request that throws is caught for its batch only: the
\* step of the batch loop goes on to the next batch, or to the end of the
\* workflow after the last batch, and never ends the workflow in failure
C16_BatchFailureCaught ==
    [][del.pc = "batch" =>
          /\ del'.pc \in {"batch", "audit"}
          /\ del'.error = "none"]_vars

\* the storage deletion of a run that passed its pre-conditions has ended:
\* it returned (nothing listed, all deleted, or some keys reported as errors),
\* or it was aborted on foreign objects
StoragePhaseEnded ==
    \/ del.s3Deletion = "returned"
    \/ /\ del.pc = "failed"
       /\ del.error = "Invalid objects found in tenant prefix"

\* C17: a storage deletion that passed its pre-conditions has written exactly
\* one audit-log entry, with the requested count, the deleted count and a
\* timestamp, however it ended, unless the write of the entry itself failed;
\* and a failed write of the entry does not fail the deletion
C17_OneAuditEntryPerRun ==
    /\ (StoragePhaseEnded /\ del.audit # "failed") =>
          /\ Len(auditLog) = 1
          /\ auditLog[1].entityId = del.tenantId
          /\ auditLog[1].requestedDeletionCount = Len(del.validObjects)
          /\ auditLog[1].deletedObjectCount = del.totalDeleted
          /\ auditLog[1].deletionTimestamp = "now"
    /\ del.audit = "failed" => del.s3Deletion = "returned"
    /\ Len(auditLog) <= 1

\* the re-listing of deleteTenantComplete has been made
Verified ==
    /\ del.mode = "complete"
    /\ del.s3Deletion = "returned"
    /\ del.pc \in {"failed", "db", "done"}

\* C18: when the re-listing after the batches finds an object left, or fails,
\* the result carries verification = false and the workflow has not thrown
\* because of it
C18_VerificationReportedNotThrown ==
    (Verified /\ del.verification = FALSE) =>
        /\ del.pc = "done"
        /\ del.error = "none"

----------------------------------------------------------------------------
(* Claims about failures of the ingestion service *)

\* a processDocument call that passed the key check has returned false
FailedAfterKeyCheck(p) ==
    /\ ing[p].pc = "done"
    /\ ing[p].result = FALSE
    /\ validateS3Key(ing[p].s3Key, ing[p].tenantId)

\* C19: when a step of processDocument after the key check throws,
\* processDocument returns false and the status of the document has been set
\* to ERROR
C19_FailureSetsError ==
    \A p \in Triggers :
        (FailedAfterKeyCheck(p) /\ ing[p].documentId \in DOMAIN documents) =>
            documents[ing[p].documentId].status = "ERROR"

\* the rows found by the query of the running batch whose key is accepted
AcceptedRows ==
    {j \in 1..Len(bat.found) :
        /\ bat.found[j].storageKey # <<>>
        /\ validateS3Key(bat.found[j].storageKey, bat.tenantId)}

CalledIds == {bat.called[j].id : j \in 1..Len(bat.called)}

SkippedIds == {bat.skipped[j] : j \in 1..Len(bat.skipped)}

\* C20: processAllTenantDocuments passes to processDocument exactly the rows
\* whose storageKey is present and passes validateS3Key for the tenant; for
\* the other rows nothing is fetched; neither a skipped row nor a failed
\* processDocument ends the loop, and the count returned is the number of
\* rows for which processDocument returned true
C20_BatchSkipsAndContinues ==
    /\ CalledIds \subseteq {bat.found[j].id : j \in AcceptedRows}
    /\ SkippedIds = {bat.found[j].id :
                        j \in {k \in (1..Len(bat.found)) \ AcceptedRows : k < bat.i}}
    /\ ing["batch"].pc # "idle" =>
          /\ bat.i \in AcceptedRows
          /\ ing["batch"].documentId = bat.found[bat.i].id
    /\ \A c \in 1..Len(s3Calls) :
          s3Calls[c].op = "GetObject" =>
              \E j \in AcceptedRows : /\ j <= bat.i
                                      /\ s3Calls[c].arg = bat.found[j].storageKey
    /\ bat.pc = "failed" => (bat.found = <<>> /\ s3Calls = <<>>)
    /\ bat.pc = "done" =>
          /\ CalledIds = {bat.found[j].id : j \in AcceptedRows}
          /\ Len(bat.called) + Len(bat.skipped) = Len(bat.found)
          /\ bat.processedCount
                = Cardinality({j \in 1..Len(bat.called) : bat.called[j].success})

\* a batch with a row without key and a row with another tenant's key between
\* a row whose processDocument failed and a row whose processDocument
\* succeeded has returned 1
C20_Witness ==
    /\ bat.pc = "done"
    /\ bat.tenantId = TenantA
    /\ bat.skipped = <<<<"d", "2">>, <<"d", "3">>>>
    /\ bat.called = <<[id |-> <<"d", "1">>, success |-> FALSE],
                      [id |-> <<"d", "4">>, success |-> TRUE]>>
    /\ bat.processedCount = 1


----------------------------------------------------------------------------
(* Claims about the background job *)

RECURSIVE SumCounts(_)
SumCounts(log) ==
    IF log = <<>> THEN 0
    ELSE (IF Head(log).count >= 0 THEN Head(log).count ELSE 0)
         + SumCounts(Tail(log))

LogTenants == [j \in 1..Len(job.log) |-> job.log[j].tenantId]

\* C21: in a pass of processPendingDocuments an exception of one tenant's
\* processing is caught: the pass throws only when its own first query fails,
\* the tenants handled so far are the first tenants of the pass in order, a
\* finished pass has handled every tenant of the pass, and it returns the sum
\* of the counts of the tenants that did not fail
C21_TenantFailureIsolated ==
    /\ job.pc = "failed" => job.log = <<>>
    /\ job.pc \in {"loop", "await"} =>
          LogTenants = SubSeq(job.tenantIds, 1, job.i - 1)
    /\ job.pc = "done" =>
          /\ LogTenants = job.tenantIds
          /\ job.result = SumCounts(job.log)

\* a finished pass in which a tenant failed and a later tenant had a document
\* processed
C21_Witness ==
    /\ job.pc = "done"
    /\ \E j, k \in 1..Len(job.log) :
          /\ j < k
          /\ job.log[j].count = -1
          /\ job.log[k].count > 0
    /\ job.result > 0

----------------------------------------------------------------------------
(* Claims about invalid tenant ids *)

\* C22: no request reaches the storage client from an operation called with
\* a tenant id that sanitizeTenantId rejects (an empty id, or an id with no
\* character of [A-Za-z0-9_-])
C22_InvalidTenantNeverReachesStorage ==
    \A i \in 1..Len(s3Calls) : sanitizeTenantId(s3Calls[i].tenantId) # Null

----------------------------------------------------------------------------
(* Claims about the role check of downloads *)

\* the roles that decide the access to a document: its own when it has any,
\* else its folder's when it has a folder with roles, else none (any user of
\* the tenant is allowed)
GoverningRoles(document) ==
    IF document.allowedRoles # {}
    THEN [any |-> FALSE, roles |-> document.allowedRoles]
    ELSE IF document.hasFolder /\ document.folderRoles # {}
    THEN [any |-> FALSE, roles |-> document.folderRoles]
    ELSE [any |-> TRUE, roles |-> {}]

RoleDenied(slot) ==
    dl[slot].message = "Unauthorized: Document not found or access denied"

\* C23: a download request for a document that exists for the user's tenant
\* is denied for the roles exactly when the first tier that applies (the
\* document's roles, then the folder's roles, then default allow) has no role
\* of the user
C23_ThreeTierRoleCheck ==
    \A slot \in Slots :
        /\ dl[slot].pc = "done"
        /\ findDocument(dl[slot].documentId, dl[slot].userTenantId) # Null
        => LET tier == GoverningRoles(documents[dl[slot].documentId])
           IN  IF tier.any
               THEN ~RoleDenied(slot)
               ELSE RoleDenied(slot)
                       <=> (dl[slot].userRoles \cap tier.roles = {})

\* the document with roles {staff} in a folder with roles {admin}: a user
\* with the folder's role is denied, a user with the document's role is not
C23_Witness ==
    /\ dl[1].pc = "done"
    /\ dl[1].documentId = <<"d", "6">>
    /\ dl[1].userTenantId = TenantA
    /\ dl[1].userRoles = {"admin"}
    /\ RoleDenied(1)
    /\ dl[2].pc = "done"
    /\ dl[2].documentId = <<"d", "6">>
    /\ dl[2].userTenantId = TenantA
    /\ dl[2].userRoles = {"staff"}
    /\ ~RoleDenied(2)

----------------------------------------------------------------------------
(* Claims about the user's delete *)

\* C24: a delete request of a user only soft-deletes: the object that was
\* stored at the document's storage key when the request came in is still
\* in the bucket when the request is answered
C24_UserDeleteKeepsObject ==
    /\ ctl.op = "delete"
    /\ ctl.pc = "done"
    /\ ctl.stored
    => ctl.storageKey \in bucket

----------------------------------------------------------------------------
(* Claims about concurrent ingestion *)

\* the embedding record of chunk i of document d, as a run for the owning
\* tenant writes it
ExpectedRecord(d, i) ==
    [id |-> <<d, i>>, tenantId |-> RaceDocuments[d].tenantId, documentId |-> d,
     chunkIndex |-> i, source |-> RaceDocuments[d].storageKey]

\* the most chunks a text of TextLengths has
MaxChunks == chunkCount(chunkSize + 1, 0)

\* a run of trigger p is at work on document d for tenant t
RunOn(p, d, t) ==
    /\ ing[p].documentId = d
    /\ ing[p].tenantId = t
    /\ ing[p].pc \notin {"idle", "threw"}

\* the batch pass is for tenant t and has handled, or is handling, document d
BatchOn(d, t) ==
    /\ bat.tenantId = t
    /\ \/ RunOn("batch", d, t)
       \/ \E j \in 1..Len(bat.called) : bat.called[j].id = d

C28_ReadyIsFinal ==
    [][\A d \in DOMAIN documents :
          documents[d].status = "READY" => documents'[d].status = "READY"]_vars

----------------------------------------------------------------------------
(* Claims about the document status under batch passes *)

\* row j of the rows found has not been handed to processDocument yet
NotYetHandled(j) == j > bat.i \/ (j = bat.i /\ bat.pc = "loop")

Selectable(d, tenantId) ==
    /\ d \in DOMAIN documents
    /\ documents[d].tenantId = tenantId
    /\ ~documents[d].deleted

NeedsProcessing(d) == documents[d].status \in {"PENDING", "EXTRACTED"}

\* the rows a pass holds are at most 100 rows of its tenant that are not
\* deleted, and those it has not handled yet still need processing
SelectionOk ==
    bat.pc \in {"loop", "await", "done"} =>
        /\ Len(bat.found) <= 100
        /\ \A j \in 1..Len(bat.found) :
              /\ Selectable(bat.found[j].id, bat.tenantId)
              /\ NotYetHandled(j) => NeedsProcessing(bat.found[j].id)

\* a run that has not written yet works on a row that needs processing
FetchOk ==
    ing["batch"].pc \in {"validate", "fetch", "extract", "saveText"} =>
        /\ ing["batch"].documentId \in DOMAIN documents
        /\ NeedsProcessing(ing["batch"].documentId)

\* a step leaves the rows that are READY or in ERROR as they are, and
\* changes a status only from PENDING to EXTRACTED, from EXTRACTED to READY,
\* or to ERROR
StatusStepOk ==
    \A d \in DOMAIN documents :
        /\ d \in DOMAIN documents'
        /\ documents[d].status \in {"READY", "ERROR"} =>
              documents'[d] = documents[d]
        /\ documents'[d].status # documents[d].status =>
              \/ <<documents[d].status, documents'[d].status>>
                    \in {<<"PENDING", "EXTRACTED">>, <<"EXTRACTED", "READY">>}
              \/ documents'[d].status = "ERROR"

----------------------------------------------------------------------------
(* Claims about the three key validators *)

\* C27: for every key and tenant id, the download service's validateS3Key
\* is true, the file service's validateTenantAccess does not throw, and the
\* guard's validateS3Key is true, all three or none
C27_ValidatorsAgree ==
    guard.fn = "validateS3Key" =>
        /\ guard.download <=> guard.file
        /\ guard.file <=> guard.valid

----------------------------------------------------------------------------
(* Claims about deletion and outstanding upload URLs *)

\* C29: once deleteTenantComplete has deleted the tenant's records, no
\* object is stored under the tenant's prefix, also when an upload URL
\* issued before the deletion started is used while it is valid
C29_NoObjectAfterCompleteDeletion ==
    /\ del.pc = "done"
    /\ del.mode = "complete"
    => \A k \in bucket : ~StartsWith(k, TenantPrefix(del.tenantId))

----------------------------------------------------------------------------
(* Claims about the progress of batch ingestion *)

\* the rows of the backlog with a storage key that the loop accepts
ProcessableIds ==
    {d \in DOMAIN ProgressDocuments :
        batchKeyOk(ProgressDocuments[d].storageKey, ProgressDocuments[d].tenantId)}

\* a pass has ended in which no tenant failed
PassCompleted ==
    /\ job.pc = "done"
    /\ Len(job.log) > 0
    /\ \A j \in 1..Len(job.log) : job.log[j].count >= 0

\* C30: when passes of the batch job keep completing, every row that is
\* PENDING, not deleted and has a valid storage key is processed in the end
\* (its status becomes READY or ERROR), whatever other rows its tenant holds
C30_PendingEventuallyProcessed ==
    []<>PassCompleted =>
        \A d \in ProcessableIds :
            (/\ d \in DOMAIN documents
             /\ documents[d].status = "PENDING"
             /\ ~documents[d].deleted)
            ~> (/\ d \in DOMAIN documents
                /\ documents[d].status \in {"READY", "ERROR"})
=============================================================================
